---- MODULE Spec2Model ----
(***************************************************************************)
(* Insta-Clerky: webhook ingestion -> rule matching -> response dispatch.  *)
(* Each action is one resumption of the event loop: the code run from the  *)
(* completion of one awaited call up to the issue of the next one.         *)
(***************************************************************************)
EXTENDS Integers, Sequences, FiniteSets, TLC

VARIABLES
  instances,    \* InstagramInstance collection (MongoDB)
  automations,  \* instagram_automations table, in creation order
  messages,     \* instagram_messages table
  comments,     \* instagram_comments table
  reports,      \* instagram_reports table
  sends,        \* calls made to the platform send API (history)
  matchLog,     \* findMatchingAutomation calls and their results (history)
  updates,      \* emitInstagramUpdate calls (history)
  pc,           \* per delivery: the awaited call processWebhook is suspended on
  req,          \* per delivery: the POST request (route parameter and body)
  idx,          \* per delivery: position of the sub-event being processed
  inst,         \* per delivery: local `instance` of processWebhook
  auto,         \* per delivery: local `automation` of processDirectMessage/processComment
  tok,          \* per delivery: local `instanceWithToken.accessToken`
  res,          \* per delivery: the HTTP responses written by handleWebhook
  verifyLog,    \* GET handshakes answered by verifyWebhook (request and response)
  probe,        \* last direct call of findMatchingAutomation (inputs and result)
  created,      \* number of instance documents ever created
  oauth,        \* per OAuth callback: the awaited call and the handler's locals
  deauth,       \* per deauthorization callback: the awaited call and the loaded document
  upd,          \* per updateAutomation request: the awaited call and the handler's locals
  socket,       \* socketClient: `socket` (null or the Socket made by io())
  isConnected,  \* socketClient: `isConnected`
  hasWarnedAboutConnection, \* socketClient: `hasWarnedAboutConnection`
  reconnectAttempts,        \* socketClient: `reconnectAttempts`
  pendingEvents,            \* socketClient: `pendingEvents`
  emitted,      \* socket.emit calls, in order (history)
  manager,      \* the socket.io connection: its state and the reconnections tried
  now,          \* Date.now(), in ticks
  refresh       \* per refreshInstanceToken call: the awaited call and its locals

\* state of the management handlers
mgmtVars == <<created, oauth, deauth, upd>>

\* the clock and the token refresh calls
refreshVars == <<now, refresh>>

\* state of the socket client
sockVars == <<socket, isConnected, hasWarnedAboutConnection, reconnectAttempts,
              pendingEvents, emitted, manager>>

vars == <<instances, automations, messages, comments, reports, sends, matchLog,
          updates, pc, req, idx, inst, auto, tok, res, verifyLog, probe,
          created, oauth, deauth, upd,
          socket, isConnected, hasWarnedAboutConnection, reconnectAttempts,
          pendingEvents, emitted, manager, now, refresh>>

\* ------------------------------------------------------------------ bounds
MaxDeliveries == 2
MaxAutomations == 2
MaxRules == 2
MaxVerify == 2
MaxInstances == 3
MaxCallbacks == 1
MaxUpdates == 2
MaxEmits == 3
MaxRefreshes == 2
MaxNow == 3
TicksPerDay == 2
MaxItems == 3

Deliveries == 1..MaxDeliveries
Callbacks == 1..MaxCallbacks
Updates == 1..MaxUpdates
Refreshes == 1..MaxRefreshes

\* null / undefined, for a string, an automation and an instance
None == "none"
NoAutomation == [id |-> 0]
NoInstance == [id |-> None]
\* a document without tokenExpiresAt; dates are ticks from 0 on
NoDate == -1

\* ------------------------------------------------------------------ strings
\* A string is a sequence of characters.
Hi == <<"H", "i">>
hi == <<"h", "i">>
yo == <<"y", "o">>
YO == <<"Y", "O">>
Blank == <<" ">>
HiPadded == <<" ", "H", "i", " ">>

\* String.prototype.toLowerCase, character by character
toLowerCaseIdentity(s) == s

toLowerCase(s) ==
  [i \in 1..Len(s) |->
     CASE s[i] = "H" -> "h"
       [] s[i] = "I" -> "i"
       [] s[i] = "Y" -> "y"
       [] s[i] = "O" -> "o"
       [] OTHER -> s[i]]

\* String.prototype.includes: scan the start positions left to right
RECURSIVE includesFrom(_, _, _)
includesFrom(s, k, i) ==
  IF i + Len(k) - 1 > Len(s) THEN FALSE
  ELSE IF SubSeq(s, i, i + Len(k) - 1) = k THEN TRUE
  ELSE includesFrom(s, k, i + 1)

includesAlways(s, k) == TRUE

includes(s, k) == includesFrom(s, k, 1)

\* String.prototype.trim
RECURSIVE trimStart(_)
trimStart(s) ==
  IF s # <<>> /\ Head(s) = " " THEN trimStart(Tail(s)) ELSE s

RECURSIVE trimEnd(_)
trimEnd(s) ==
  IF s # <<>> /\ s[Len(s)] = " " THEN trimEnd(SubSeq(s, 1, Len(s) - 1)) ELSE s

trim(s) == trimEnd(trimStart(s))

\* Array.prototype.filter / map on sequences
RECURSIVE SelectValid(_)
SelectValid(ks) ==
  IF ks = <<>> THEN <<>>
  ELSE IF Len(trim(Head(ks))) > 0
       THEN <<Head(ks)>> \o SelectValid(Tail(ks))
       ELSE SelectValid(Tail(ks))

Reverse(s) == [i \in 1..Len(s) |-> s[Len(s) + 1 - i]]

\* ------------------------------------------------------------------ automations
\* AutomationService.create: validation of the keyword set, then the INSERT.
\* The row's id and created_at are its position in creation order.
createValid(data) ==
  data.triggerType = "keyword" =>
    /\ Len(data.keywords) > 0
    /\ Len(SelectValid(data.keywords)) > 0

createRow(data, id) ==
  [id           |-> id,
   createdAt    |-> id,
   instanceId   |-> data.instanceId,
   type         |-> data.type,
   triggerType  |-> data.triggerType,
   keywords     |-> IF data.triggerType = "keyword"
                    THEN [i \in 1..Len(SelectValid(data.keywords)) |->
                            trim(SelectValid(data.keywords)[i])]
                    ELSE <<>>,
   responseText |-> data.responseText,
   responseType |-> data.responseType,
   responseSequence |-> data.responseSequence,
   isActive     |-> data.isActive]

AutomationCreate(data) ==
  /\ createValid(data)
  /\ automations' = Append(automations, createRow(data, Len(automations) + 1))

\* AutomationService.update with data = { isActive } (toggleAutomation)
AutomationToggle(id) ==
  /\ id \in 1..Len(automations)
  /\ automations' = [automations EXCEPT ![id].isActive = ~@]

\* ORDER BY created_at ASC instead of DESC
getActiveByInstanceAsc(store, instanceId) ==
  LET Active(a) == a.instanceId = instanceId /\ a.isActive
  IN SelectSeq(store, Active)

\* AutomationService.getActiveByInstance: active rows of the instance,
\* ORDER BY created_at DESC
getActiveByInstance(store, instanceId) ==
  LET Active(a) == a.instanceId = instanceId /\ a.isActive
  IN Reverse(SelectSeq(store, Active))

\* automations.filter((auto) => auto.type === type) left out
relevantAutomationsUnfiltered(list, type) == list

relevantAutomations(list, type) ==
  LET OfType(a) == a.type = type
  IN SelectSeq(list, OfType)

\* automation.keywords.some(keyword => lowerText.includes(keyword.toLowerCase()))
hasKeyword(a, text) ==
  \E i \in 1..Len(a.keywords) :
    includes(toLowerCase(text), toLowerCase(a.keywords[i]))

\* the for loop of findMatchingAutomation: first match in scan order
RECURSIVE scanAutomations(_, _)
scanAutomations(list, text) ==
  IF list = <<>> THEN NoAutomation
  ELSE IF Head(list).triggerType = "all" THEN Head(list)
  ELSE IF Head(list).triggerType = "keyword" /\ hasKeyword(Head(list), text)
       THEN Head(list)
  ELSE scanAutomations(Tail(list), text)

findMatchingAutomation(store, instanceId, type, text) ==
  scanAutomations(
    relevantAutomations(getActiveByInstance(store, instanceId), type), text)

\* ------------------------------------------------------------------ instances
\* InstanceService.getByInstanceName: findOne({ instanceName })
getByInstanceName(name) ==
  {instances[i] : i \in {j \in DOMAIN instances : instances[j].instanceName = name}}

\* findOne with the filter left out: any document matches
getByInstagramAccountIdLoose(key) == {instances[i] : i \in DOMAIN instances}

\* InstanceService.getByInstagramAccountId:
\* findOne({ $or: [{ instagramAccountId }, { webhookIds: instagramAccountId }] })
getByInstagramAccountId(key) ==
  {instances[i] : i \in {j \in DOMAIN instances :
      \/ instances[j].instagramAccountId = key
      \/ key \in instances[j].webhookIds}}

\* findOne answers one matching document, or null when there is none
findOne(matching) == IF matching = {} THEN {NoInstance} ELSE matching

\* ------------------------------------------------------------------ event tables
\* INSERT INTO instagram_messages ... ON CONFLICT DO UPDATE (an upsert)
InsertMessageUpsert(rows, row) ==
  {r \in rows : ~(r.message_id = row.message_id /\ r.instance_id = row.instance_id)}
    \cup {row}

\* INSERT INTO instagram_messages ... ON CONFLICT (message_id, instance_id) DO NOTHING
InsertMessage(rows, row) ==
  IF \E r \in rows : r.message_id = row.message_id /\ r.instance_id = row.instance_id
  THEN rows
  ELSE rows \cup {row}

\* INSERT INTO instagram_comments ... ON CONFLICT (comment_id) DO NOTHING
InsertComment(rows, row) ==
  IF \E r \in rows : r.comment_id = row.comment_id
  THEN rows
  ELSE rows \cup {row}

\* UPDATE instagram_messages SET replied = TRUE WHERE message_id = $1 AND instance_id = $2
MarkMessageReplied(rows, mid, instanceId) ==
  {IF r.message_id = mid /\ r.instance_id = instanceId
   THEN [r EXCEPT !.replied = TRUE] ELSE r : r \in rows}

\* UPDATE instagram_comments SET replied = TRUE, reply_text = $1 WHERE comment_id = $2
MarkCommentReplied(rows, cid) ==
  {IF r.comment_id = cid THEN [r EXCEPT !.replied = TRUE] ELSE r : r \in rows}

\* ------------------------------------------------------------------ payloads
DM(mid, text, echo) ==
  [kind |-> "messaging", id |-> mid, text |-> text, sender |-> "u1",
   is_echo |-> echo, field |-> None]

Change(cid, text, field) ==
  [kind |-> "changes", id |-> cid, text |-> text, sender |-> "u2",
   is_echo |-> FALSE, field |-> field]

Entry(messaging, changes) == [messaging |-> messaging, changes |-> changes]

Body(object, entries) == [object |-> object, entry |-> entries]

Bodies ==
  { Body("instagram", <<Entry(<<>>, <<Change("c1", Hi, "comments")>>)>>),
    Body("instagram", <<Entry(<<DM("m2", Hi, TRUE), DM("m1", yo, FALSE)>>, <<>>)>>),
    Body("instagram", <<Entry(<<DM(None, Hi, FALSE), DM("m1", Hi, FALSE)>>, <<>>),
                        Entry(<<>>, <<Change("c2", Hi, "mentions"),
                                      Change("c1", yo, "comments")>>)>>),
    Body("page", <<Entry(<<DM("m1", Hi, FALSE)>>, <<>>)>>) }

Routes == {"n1", "w2", "zz"}

\* the two nested loops of processWebhook, as the list of items they visit:
\* per entry, its messaging events and then its changes
RECURSIVE EntryItemsChangesFirst(_)
EntryItemsChangesFirst(entries) ==
  IF entries = <<>> THEN <<>>
  ELSE Head(entries).changes \o Head(entries).messaging
         \o EntryItemsChangesFirst(Tail(entries))

RECURSIVE EntryItems(_)
EntryItems(entries) ==
  IF entries = <<>> THEN <<>>
  ELSE Head(entries).messaging \o Head(entries).changes \o EntryItems(Tail(entries))

Items(body) == IF body.object = "instagram" THEN EntryItems(body.entry) ELSE <<>>

\* the echo test left out
isEchoNever(ev) == FALSE

\* event.message?.is_echo
isEcho(ev) == ev.is_echo

\* which items of the loops reach processDirectMessage / processComment
Dispatched(item) ==
  \/ item.kind = "messaging" /\ ~isEcho(item)
  \/ item.kind = "changes" /\ item.field = "comments"

\* the validity tests that open processDirectMessage and processComment
validEvent(item) ==
  IF item.kind = "messaging"
  THEN item.sender # None /\ item.id # None
  ELSE item.id # None /\ item.text # <<>>

\* the loops of processWebhook take the same item again
NextIndexRepeats(items, i) ==
  LET later == {j \in (IF i = 0 THEN 1 ELSE i)..Len(items) :
                  Dispatched(items[j]) /\ validEvent(items[j])}
  IN IF later = {} THEN Len(items) + 1
     ELSE CHOOSE j \in later : \A k \in later : j <= k

\* first item after position i that is processed up to its first awaited call
NextIndex(items, i) ==
  LET later == {j \in (i + 1)..Len(items) : Dispatched(items[j]) /\ validEvent(items[j])}
  IN IF later = {} THEN Len(items) + 1
     ELSE CHOOSE j \in later : \A k \in later : j <= k

interactionType(item) == IF item.kind = "messaging" THEN "dm" ELSE "comment"

\* ------------------------------------------------------------------ matching, stated directly
\* two characters that differ at most in case
SameLetter(c1, c2) ==
  \/ c1 = c2
  \/ {c1, c2} \in {{"h", "H"}, {"i", "I"}, {"y", "Y"}, {"o", "O"}}

\* k occurs in text as a case-insensitive substring
ContainsCI(text, k) ==
  \E p \in 0..(Len(text) - Len(k)) :
    \A q \in 1..Len(k) : SameLetter(text[p + q], k[q])

\* the rows of a store that are active, of the channel and the kind, and whose
\* trigger accepts the text
Eligible(store, instanceId, type, text) ==
  {i \in 1..Len(store) :
     /\ store[i].isActive
     /\ store[i].instanceId = instanceId
     /\ store[i].type = type
     /\ \/ store[i].triggerType = "all"
        \/ /\ store[i].triggerType = "keyword"
           /\ \E n \in 1..Len(store[i].keywords) : ContainsCI(text, store[i].keywords[n])}

\* ------------------------------------------------------------------ POST /webhook
\* response written on the error path of handleWebhook
AckOnError500 == [status |-> 500, body |-> "EVENT_RECEIVED"]

AckOnError == [status |-> 200, body |-> "EVENT_RECEIVED"]

AckOk == [status |-> 200, body |-> "EVENT_RECEIVED"]

\* the response is held back until processWebhook settles
respondDeferred(written) == written

\* res.status(200).send('EVENT_RECEIVED') right after processWebhook(...) is started
respondAfterStart(written) == Append(written, AckOk)

Item(d) == Items(req[d].body)[idx[d]]
Src(d) == <<d, idx[d]>>

\* end of processDirectMessage / processComment for the current item: the loops
\* of processWebhook go on to the next item that reaches an awaited call
Continue(d) ==
  LET items == Items(req[d].body)
      j == NextIndex(items, idx[d])
  IN /\ idx' = [idx EXCEPT ![d] = j]
     /\ pc' = [pc EXCEPT ![d] = IF j > Len(items) THEN "done" ELSE "insert"]
     /\ auto' = [auto EXCEPT ![d] = NoAutomation]
     /\ tok' = [tok EXCEPT ![d] = None]

\* processWebhook rejects: logged by the .catch of handleWebhook
Reject(d) ==
  /\ pc' = [pc EXCEPT ![d] = "done"]
  /\ UNCHANGED <<idx, auto, tok>>

\* the error leaves processDirectMessage / processComment and ends processWebhook
catchErrorRethrow(d) == Reject(d)

\* the outer catch of processDirectMessage / processComment: the error is logged
\* and the function returns normally to the loops of processWebhook
catchError(d) == Continue(d)

\* throws: an exception is raised in the try block before processWebhook is
\* called, so the catch block answers and nothing is processed
handleWebhook(d, route, body, throws) ==
  /\ pc[d] = "idle"
  /\ \A e \in Deliveries : e < d => pc[e] # "idle"
  /\ req' = [req EXCEPT ![d] = [route |-> route, body |-> body]]
  /\ IF throws
     THEN /\ res' = [res EXCEPT ![d] = Append(@, AckOnError)]
          /\ pc' = [pc EXCEPT ![d] = "aborted"]
     ELSE /\ res' = [res EXCEPT ![d] = respondAfterStart(@)]
          /\ pc' = [pc EXCEPT ![d] = "getByInstanceName"]
  /\ UNCHANGED <<instances, automations, messages, comments, reports, sends,
                 matchLog, updates, idx, inst, auto, tok, verifyLog, probe>>
  /\ UNCHANGED mgmtVars
  /\ UNCHANGED sockVars
  /\ UNCHANGED refreshVars

\* processWebhook: await InstanceService.getByInstanceName(instanceName)
ResolveByName(d, ok) ==
  /\ pc[d] = "getByInstanceName"
  /\ IF ~ok
     THEN Reject(d) /\ UNCHANGED inst
     ELSE \E r \in findOne(getByInstanceName(req[d].route)) :
            IF r.id = None
            THEN /\ pc' = [pc EXCEPT ![d] = "getByInstagramAccountId"]
                 /\ UNCHANGED <<idx, inst, auto, tok>>
            ELSE /\ inst' = [inst EXCEPT ![d] = r]
                 /\ Continue(d)
  /\ UNCHANGED <<instances, automations, messages, comments, reports, sends,
                 matchLog, updates, req, res, verifyLog, probe>>
  /\ UNCHANGED mgmtVars
  /\ UNCHANGED sockVars
  /\ UNCHANGED refreshVars

\* processWebhook: await InstanceService.getByInstagramAccountId(instanceName)
ResolveByAccount(d, ok) ==
  /\ pc[d] = "getByInstagramAccountId"
  /\ IF ~ok
     THEN Reject(d) /\ UNCHANGED inst
     ELSE \E r \in findOne(getByInstagramAccountId(req[d].route)) :
            IF r.id = None
            THEN /\ pc' = [pc EXCEPT ![d] = "done"]
                 /\ UNCHANGED <<idx, inst, auto, tok>>
            ELSE /\ inst' = [inst EXCEPT ![d] = r]
                 /\ Continue(d)
  /\ UNCHANGED <<instances, automations, messages, comments, reports, sends,
                 matchLog, updates, req, res, verifyLog, probe>>
  /\ UNCHANGED mgmtVars
  /\ UNCHANGED sockVars
  /\ UNCHANGED refreshVars

\* await pgPool.query(INSERT ... ON CONFLICT ... DO NOTHING)
InsertEvent(d, ok) ==
  /\ pc[d] = "insert"
  /\ IF ~ok
     THEN catchError(d) /\ UNCHANGED <<messages, comments>>
     ELSE /\ IF Item(d).kind = "messaging"
             THEN /\ messages' = InsertMessage(messages,
                       [message_id |-> Item(d).id, instance_id |-> inst[d].id,
                        text |-> Item(d).text, replied |-> FALSE])
                  /\ UNCHANGED comments
             ELSE /\ comments' = InsertComment(comments,
                       [comment_id |-> Item(d).id, instance_id |-> inst[d].id,
                        text |-> Item(d).text, replied |-> FALSE])
                  /\ UNCHANGED messages
          /\ pc' = [pc EXCEPT ![d] = "findMatchingAutomation"]
          /\ UNCHANGED <<idx, auto, tok>>
  /\ UNCHANGED <<instances, automations, reports, sends, matchLog, updates,
                 req, inst, res, verifyLog, probe>>
  /\ UNCHANGED mgmtVars
  /\ UNCHANGED sockVars
  /\ UNCHANGED refreshVars

\* await AutomationService.findMatchingAutomation(instanceId, kind, text)
MatchEvent(d, ok) ==
  /\ pc[d] = "findMatchingAutomation"
  /\ IF ~ok
     THEN catchError(d) /\ UNCHANGED <<matchLog, updates>>
     ELSE LET kind == interactionType(Item(d))
              a == findMatchingAutomation(automations, inst[d].id, kind, Item(d).text)
          IN /\ matchLog' = matchLog \cup
                   {[src |-> Src(d), instanceId |-> inst[d].id, kind |-> kind,
                     key |-> Item(d).id,
                     eligible |-> Cardinality(
                        Eligible(automations, inst[d].id, kind, Item(d).text)),
                     result |-> a.id]}
             /\ IF a.id = 0
                THEN /\ updates' = updates \cup {Src(d)}
                     /\ Continue(d)
                ELSE /\ auto' = [auto EXCEPT ![d] = a]
                     /\ pc' = [pc EXCEPT ![d] = "getInstanceWithToken"]
                     /\ UNCHANGED <<idx, tok, updates>>
  /\ UNCHANGED <<instances, automations, messages, comments, reports, sends,
                 req, inst, res, verifyLog, probe>>
  /\ UNCHANGED mgmtVars
  /\ UNCHANGED sockVars
  /\ UNCHANGED refreshVars

\* which platform call the automation's responseType selects for the kind of event
dispatchApi(kind, responseType) ==
  IF kind = "dm"
  THEN IF responseType = "direct" THEN "sendDirectMessage" ELSE None
  ELSE IF responseType = "comment" THEN "replyToComment"
       ELSE IF responseType = "direct" THEN "sendDirectMessage" ELSE None

\* await InstanceService.getByInstagramAccountId(instance.instagramAccountId)
LoadToken(d, ok) ==
  /\ pc[d] = "getInstanceWithToken"
  /\ IF ~ok
     THEN catchError(d)
     ELSE \E r \in findOne(getByInstagramAccountId(inst[d].instagramAccountId)) :
            IF r.id = None \/ r.accessToken = None
            THEN Continue(d)
            ELSE /\ tok' = [tok EXCEPT ![d] = r.accessToken]
                 /\ pc' = [pc EXCEPT ![d] =
                      IF dispatchApi(interactionType(Item(d)), auto[d].responseType) = None
                      THEN "reportSent" ELSE "send"]
                 /\ UNCHANGED <<idx, auto>>
  /\ UNCHANGED <<instances, automations, messages, comments, reports, sends,
                 matchLog, updates, req, inst, res, verifyLog, probe>>
  /\ UNCHANGED mgmtVars
  /\ UNCHANGED sockVars
  /\ UNCHANGED refreshVars

\* the send reads the automation's text from the store when it is made
SendResponseRereads(d, ok) ==
  /\ pc[d] = "send"
  /\ sends' = sends \cup
       {[src |-> Src(d),
         api |-> dispatchApi(interactionType(Item(d)), auto[d].responseType),
         automationId |-> auto[d].id, automationType |-> auto[d].type,
         text |-> automations[auto[d].id].responseText,
         seqno |-> Cardinality({t \in sends : t.src = Src(d)}) + 1,
         token |-> tok[d], ok |-> ok]}
  /\ pc' = [pc EXCEPT ![d] = IF ok THEN "reportSent" ELSE "reportFailed"]
  /\ UNCHANGED <<instances, automations, messages, comments, reports, matchLog,
                 updates, req, idx, inst, auto, tok, res, verifyLog, probe>>
  /\ UNCHANGED mgmtVars
  /\ UNCHANGED sockVars
  /\ UNCHANGED refreshVars

\* await sendDirectMessage(...) / await replyToComment(...)
SendResponse(d, ok) ==
  /\ pc[d] = "send"
  /\ sends' = sends \cup
       {[src |-> Src(d),
         api |-> dispatchApi(interactionType(Item(d)), auto[d].responseType),
         automationId |-> auto[d].id, automationType |-> auto[d].type,
         text |-> auto[d].responseText,
         seqno |-> Cardinality({t \in sends : t.src = Src(d)}) + 1,
         token |-> tok[d], ok |-> ok]}
  /\ pc' = [pc EXCEPT ![d] = IF ok THEN "reportSent" ELSE "reportFailed"]
  /\ UNCHANGED <<instances, automations, messages, comments, reports, matchLog,
                 updates, req, idx, inst, auto, tok, res, verifyLog, probe>>
  /\ UNCHANGED mgmtVars
  /\ UNCHANGED sockVars
  /\ UNCHANGED refreshVars

\* ReportService.create: plain INSERT INTO instagram_reports
ReportRow(d, status) ==
  [src |-> Src(d), instanceId |-> inst[d].id,
   interactionType |-> interactionType(Item(d)), key |-> Item(d).id,
   responseStatus |-> status]

\* the try block goes on to the replied update without the 'sent' report
ReportSentSkipsWrite(d, ok) ==
  /\ pc[d] = "reportSent"
  /\ pc' = [pc EXCEPT ![d] = IF ok THEN "markReplied" ELSE "reportFailed"]
  /\ UNCHANGED <<instances, automations, messages, comments, reports, sends, matchLog,
                 updates, req, idx, inst, auto, tok, res, verifyLog, probe>>
  /\ UNCHANGED mgmtVars
  /\ UNCHANGED sockVars
  /\ UNCHANGED refreshVars

\* try block: await ReportService.create({ ..., responseStatus: 'sent' })
ReportSent(d, ok) ==
  /\ pc[d] = "reportSent"
  /\ IF ok
     THEN /\ reports' = reports \cup {ReportRow(d, "sent")}
          /\ pc' = [pc EXCEPT ![d] = "markReplied"]
     ELSE /\ pc' = [pc EXCEPT ![d] = "reportFailed"]
          /\ UNCHANGED reports
  /\ UNCHANGED <<instances, automations, messages, comments, sends, matchLog,
                 updates, req, idx, inst, auto, tok, res, verifyLog, probe>>
  /\ UNCHANGED mgmtVars
  /\ UNCHANGED sockVars
  /\ UNCHANGED refreshVars

\* try block: await pgPool.query(UPDATE ... SET replied = TRUE ...)
MarkReplied(d, ok) ==
  /\ pc[d] = "markReplied"
  /\ IF ok
     THEN /\ IF Item(d).kind = "messaging"
             THEN /\ messages' = MarkMessageReplied(messages, Item(d).id, inst[d].id)
                  /\ UNCHANGED comments
             ELSE /\ comments' = MarkCommentReplied(comments, Item(d).id)
                  /\ UNCHANGED messages
          /\ updates' = updates \cup {Src(d)}
          /\ Continue(d)
     ELSE /\ pc' = [pc EXCEPT ![d] = "reportFailed"]
          /\ UNCHANGED <<messages, comments, updates, idx, auto, tok>>
  /\ UNCHANGED <<instances, automations, reports, sends, matchLog,
                 req, inst, res, verifyLog, probe>>
  /\ UNCHANGED mgmtVars
  /\ UNCHANGED sockVars
  /\ UNCHANGED refreshVars

\* the catch block announces the update without writing the failed report
ReportFailedSkipsWrite(d, ok) ==
  /\ pc[d] = "reportFailed"
  /\ updates' = updates \cup {Src(d)}
  /\ Continue(d)
  /\ UNCHANGED <<instances, automations, messages, comments, reports, sends, matchLog,
                 req, inst, res, verifyLog, probe>>
  /\ UNCHANGED mgmtVars
  /\ UNCHANGED sockVars
  /\ UNCHANGED refreshVars

\* catch block: await ReportService.create({ ..., responseStatus: 'failed' })
ReportFailed(d, ok) ==
  /\ pc[d] = "reportFailed"
  /\ IF ok
     THEN /\ reports' = reports \cup {ReportRow(d, "failed")}
          /\ updates' = updates \cup {Src(d)}
          /\ Continue(d)
     ELSE /\ UNCHANGED <<reports, updates>>
          /\ catchError(d)
  /\ UNCHANGED <<instances, automations, messages, comments, sends, matchLog,
                 req, inst, res, verifyLog, probe>>
  /\ UNCHANGED mgmtVars
  /\ UNCHANGED sockVars
  /\ UNCHANGED refreshVars

\* ------------------------------------------------------------------ management API
\* a ResponseSequenceItem
Step(type, content, delay) == [type |-> type, content |-> content, delay |-> delay]

\* a media URL is kept as <<scheme, ..., extension>>
Url(scheme, ext) == <<scheme, "cdn/x", ext>>

TwoSteps == <<Step("text", <<"a">>, 0), Step("text", <<"b">>, 1)>>

\* validateMediaUrl: https and an extension of the type's list
validExtensions(type) ==
  CASE type = "image" -> {".jpg", ".jpeg", ".png"}
    [] type = "video" -> {".mp4", ".ogg", ".avi", ".mov", ".webm"}
    [] type = "audio" -> {".aac", ".m4a", ".wav", ".mp4", ".mp3"}
    [] OTHER -> {}

validateMediaUrl(url, type) ==
  /\ url # <<>>
  /\ Head(url) = "https://"
  /\ url[Len(url)] \in validExtensions(type)

\* validateResponseSequence: TRUE when it answers null (no error)
validateResponseSequence(sequence) ==
  /\ Len(sequence) # 0
  /\ Len(sequence) <= 4
  /\ \A i \in 1..Len(sequence) :
       /\ sequence[i].type \in {"text", "image", "video", "audio"}
       /\ Len(trim(sequence[i].content)) # 0
       /\ sequence[i].delay >= 0
       /\ sequence[i].type # "text" =>
            validateMediaUrl(sequence[i].content, sequence[i].type)

\* the checks of the createAutomation handler on req.body
createBodyValid(body) ==
  /\ body.responseType = "comment" =>
       /\ Len(trim(body.responseText)) # 0
       /\ Len(body.responseSequence) = 0
  /\ body.responseType = "direct" =>
       /\ validateResponseSequence(body.responseSequence)
       /\ Len(trim(body.responseText)) = 0
  /\ body.triggerType = "keyword" =>
       /\ Len(body.keywords) # 0
       /\ Len(SelectValid(body.keywords)) # 0

\* the data the createAutomation handler hands to AutomationService.create
createData(body) ==
  [body EXCEPT
     !.keywords = IF body.triggerType = "keyword"
                  THEN [i \in 1..Len(SelectValid(body.keywords)) |->
                          trim(SelectValid(body.keywords)[i])]
                  ELSE <<>>,
     !.responseText = IF body.responseType = "comment" THEN trim(body.responseText)
                      ELSE <<>>,
     !.responseSequence = IF body.responseType = "direct" THEN body.responseSequence
                          ELSE <<>>]

\* a request body: a reply in place carries a text, a direct reply a sequence
Rule(instanceId, type, triggerType, keywords, responseType) ==
  [instanceId |-> instanceId, type |-> type, triggerType |-> triggerType,
   keywords |-> keywords,
   responseText |-> IF responseType = "comment" THEN <<"r">> ELSE <<>>,
   responseType |-> responseType,
   responseSequence |-> IF responseType = "direct" THEN TwoSteps ELSE <<>>,
   isActive |-> TRUE]

AutomationInputs ==
  { Rule("I1", "dm", "all", <<>>, "direct"),
    Rule("I1", "dm", "keyword", <<hi>>, "direct"),
    Rule("I1", "comment", "all", <<>>, "comment"),
    Rule("I2", "dm", "all", <<>>, "direct"),
    [Rule("I1", "dm", "all", <<>>, "direct") EXCEPT !.isActive = FALSE] }

createAutomation(data) ==
  /\ Len(automations) < MaxAutomations
  /\ createBodyValid(data)
  /\ AutomationCreate(createData(data))
  /\ UNCHANGED <<instances, messages, comments, reports, sends, matchLog, updates,
                 pc, req, idx, inst, auto, tok, res, verifyLog, probe>>
  /\ UNCHANGED mgmtVars
  /\ UNCHANGED sockVars
  /\ UNCHANGED refreshVars

\* createAutomation / toggleAutomation as called on their own, with the result
\* of the last findMatchingAutomation call forgotten once the store changes
createRule(data) ==
  /\ Len(automations) < MaxRules
  /\ createBodyValid(data)
  /\ AutomationCreate(createData(data))
  /\ probe' = <<>>
  /\ UNCHANGED <<instances, messages, comments, reports, sends, matchLog, updates,
                 pc, req, idx, inst, auto, tok, res, verifyLog>>
  /\ UNCHANGED mgmtVars
  /\ UNCHANGED sockVars
  /\ UNCHANGED refreshVars

toggleRule(id) ==
  /\ AutomationToggle(id)
  /\ probe' = <<>>
  /\ UNCHANGED <<instances, messages, comments, reports, sends, matchLog, updates,
                 pc, req, idx, inst, auto, tok, res, verifyLog>>
  /\ UNCHANGED mgmtVars
  /\ UNCHANGED sockVars
  /\ UNCHANGED refreshVars

RuleInputs ==
  { Rule("I1", "dm", "all", <<>>, "direct"),
    Rule("I1", "dm", "keyword", <<hi>>, "direct"),
    Rule("I1", "dm", "keyword", <<YO>>, "direct"),
    Rule("I1", "dm", "keyword", <<Blank, HiPadded>>, "direct"),
    Rule("I1", "dm", "keyword", <<Blank>>, "direct"),
    Rule("I1", "dm", "keyword", <<>>, "direct"),
    Rule("I1", "comment", "all", <<>>, "comment"),
    Rule("I1", "comment", "keyword", <<hi>>, "direct"),
    Rule("I2", "dm", "all", <<>>, "direct") }

Texts == { <<>>, Hi, <<"y", "O", "h", "I">>, <<"h", "y">> }

\* a call of AutomationService.findMatchingAutomation
callFindMatching(instanceId, type, text) ==
  /\ probe' = [instanceId |-> instanceId, type |-> type, text |-> text,
               result |-> findMatchingAutomation(automations, instanceId, type, text)]
  /\ UNCHANGED <<instances, automations, messages, comments, reports, sends,
                 matchLog, updates, pc, req, idx, inst, auto, tok, res, verifyLog>>
  /\ UNCHANGED mgmtVars
  /\ UNCHANGED sockVars
  /\ UNCHANGED refreshVars

\* ------------------------------------------------------------------ GET /webhook
VERIFY_TOKEN == "Tokenf7j4hd723fG5o2wle"

\* the test on hub.mode left out
verifyWebhookTokenOnly(mode, token, challenge) ==
  IF token = VERIFY_TOKEN
  THEN [status |-> 200, body |-> challenge]
  ELSE [status |-> 403, body |-> "Forbidden"]

verifyWebhook(mode, token, challenge) ==
  IF mode = "subscribe" /\ token = VERIFY_TOKEN
  THEN [status |-> 200, body |-> challenge]
  ELSE [status |-> 403, body |-> "Forbidden"]

Modes == {"subscribe", "unsubscribe", None}
Tokens == {VERIFY_TOKEN, "wrong", None}
Challenges == {"xyz123", "42"}

getWebhook(mode, token, challenge) ==
  /\ Len(verifyLog) < MaxVerify
  /\ verifyLog' = Append(verifyLog,
       [mode |-> mode, token |-> token, challenge |-> challenge,
        response |-> verifyWebhook(mode, token, challenge)])
  /\ UNCHANGED <<instances, automations, messages, comments, reports, sends,
                 matchLog, updates, pc, req, idx, inst, auto, tok, res, probe>>
  /\ UNCHANGED mgmtVars
  /\ UNCHANGED sockVars
  /\ UNCHANGED refreshVars

\* ------------------------------------------------------------------ instance management
\* the variables the management handlers leave alone
eventVars == <<messages, comments, reports, sends, matchLog, updates, pc, req, idx,
               inst, auto, tok, res, verifyLog, probe>>

\* _id and instanceName of the n-th document created
InstanceId(n) == CASE n = 3 -> "I3" [] n = 4 -> "I4" [] OTHER -> "I5"
InstanceName(n) == CASE n = 3 -> "n3" [] n = 4 -> "n4" [] OTHER -> "n5"

\* { $set: data } on one document
setFields(doc, data) ==
  [f \in DOMAIN doc |-> IF f \in DOMAIN data THEN data[f] ELSE doc[f]]

\* InstagramInstance.findOneAndUpdate({ _id: id, userId }, { $set: data })
findOneAndUpdate(id, userId, data) ==
  instances' = [i \in DOMAIN instances |->
     IF i = id /\ instances[i].userId = userId
     THEN setFields(instances[i], data) ELSE instances[i]]

\* InstanceService.create: a fresh instanceName, status 'created'
createInstance(userId) ==
  /\ created < MaxInstances
  /\ created' = created + 1
  /\ LET id == InstanceId(created + 1)
     IN instances' = [i \in DOMAIN instances \cup {id} |->
          IF i = id
          THEN [id |-> id, userId |-> userId, instanceName |-> InstanceName(created + 1),
                instagramAccountId |-> None, webhookIds |-> {}, accessToken |-> None,
                tokenExpiresAt |-> NoDate,
                status |-> "created"]
          ELSE instances[i]]
  /\ UNCHANGED <<automations, oauth, deauth, upd>>
  /\ UNCHANGED eventVars
  /\ UNCHANGED sockVars
  /\ UNCHANGED refreshVars

validStatuses == {"created", "connecting", "connected", "disconnected", "error"}

\* updateInstance: only a valid status reaches InstanceService.update
updateInstance(id, userId, status) ==
  /\ findOneAndUpdate(id, userId,
       IF status \in validStatuses THEN [status |-> status] ELSE <<>>)
  /\ UNCHANGED <<automations, created, oauth, deauth, upd>>
  /\ UNCHANGED eventVars
  /\ UNCHANGED sockVars
  /\ UNCHANGED refreshVars

\* deleteInstance: InstagramInstance.deleteOne({ _id: id, userId })
deleteInstance(id, userId) ==
  /\ id \in DOMAIN instances
  /\ instances' = [i \in {j \in DOMAIN instances :
                            ~(j = id /\ instances[j].userId = userId)} |-> instances[i]]
  /\ UNCHANGED <<automations, created, oauth, deauth, upd>>
  /\ UNCHANGED eventVars
  /\ UNCHANGED sockVars
  /\ UNCHANGED refreshVars

\* initiateOAuth: the owner's instance goes to status 'connecting'
initiateOAuth(id, userId) ==
  /\ id \in DOMAIN instances
  /\ instances[id].userId = userId
  /\ findOneAndUpdate(id, userId, [status |-> "connecting"])
  /\ UNCHANGED <<automations, created, oauth, deauth, upd>>
  /\ UNCHANGED eventVars
  /\ UNCHANGED sockVars
  /\ UNCHANGED refreshVars

\* handleOAuthCallback up to await InstanceService.getByIdOnly(state); ok = FALSE:
\* the query carries an error or no code, or a token exchange call throws
handleOAuthCallback(c, instanceId, user_id, account_id, ok) ==
  /\ oauth[c].pc = "idle"
  /\ \A e \in Callbacks : e < c => oauth[e].pc # "idle"
  /\ oauth' = [oauth EXCEPT ![c] =
       IF ok
       THEN [pc |-> "getByIdOnly", instanceId |-> instanceId,
             user_id |-> user_id, account_id |-> account_id]
       ELSE [pc |-> "done"]]
  /\ UNCHANGED <<instances, automations, created, deauth, upd>>
  /\ UNCHANGED eventVars
  /\ UNCHANGED sockVars
  /\ UNCHANGED refreshVars

\* getByIdOnly answers; the handler calls InstanceService.connectInstance
oauthGetByIdOnly(c, ok) ==
  /\ oauth[c].pc = "getByIdOnly"
  /\ oauth' = [oauth EXCEPT ![c] =
       IF ok /\ oauth[c].instanceId \in DOMAIN instances
       THEN [@ EXCEPT !.pc = "connectInstance"]
              @@ [userId |-> instances[oauth[c].instanceId].userId]
       ELSE [pc |-> "done"]]
  /\ UNCHANGED <<instances, automations, created, deauth, upd>>
  /\ UNCHANGED eventVars
  /\ UNCHANGED sockVars
  /\ UNCHANGED refreshVars

\* expires_in of a long-lived token when the platform names none: 5184000 s
ExpiresInDays == 60

\* the document fields handleOAuthCallback passes to connectInstance
connectData(user_id, account_id) ==
  [instagramAccountId |-> IF user_id # None THEN user_id ELSE account_id,
   accessToken |-> "t2",
   tokenExpiresAt |-> now + ExpiresInDays * TicksPerDay,
   webhookIds |-> {user_id, account_id} \ {None}]

\* InstanceService.connectInstance: { $set: { ...data, status: 'connected' } }
connectInstance(id, userId, data) ==
  findOneAndUpdate(id, userId, data @@ [status |-> "connected"])

oauthConnectInstance(c, ok) ==
  /\ oauth[c].pc = "connectInstance"
  /\ IF ok
     THEN connectInstance(oauth[c].instanceId, oauth[c].userId,
                          connectData(oauth[c].user_id, oauth[c].account_id))
     ELSE UNCHANGED instances
  /\ oauth' = [oauth EXCEPT ![c] = [pc |-> "done"]]
  /\ UNCHANGED <<automations, created, deauth, upd>>
  /\ UNCHANGED eventVars
  /\ UNCHANGED sockVars
  /\ UNCHANGED refreshVars

\* InstagramInstance.findOne({ instagramAccountId })
findByAccountId(key) ==
  {instances[i] : i \in {j \in DOMAIN instances : instances[j].instagramAccountId = key}}

\* handleDeauthorization up to its first findOne; decoded = FALSE: the
\* signed_request does not decode
handleDeauthorization(c, decoded, user_id, account_id) ==
  /\ deauth[c].pc = "idle"
  /\ \A e \in Callbacks : e < c => deauth[e].pc # "idle"
  /\ deauth' = [deauth EXCEPT ![c] =
       IF ~decoded \/ (user_id = None /\ account_id = None)
       THEN [pc |-> "done"]
       ELSE [pc |-> IF account_id # None THEN "findByAccountId" ELSE "findByUserId",
             user_id |-> user_id, account_id |-> account_id]]
  /\ UNCHANGED <<instances, automations, created, oauth, upd>>
  /\ UNCHANGED eventVars
  /\ UNCHANGED sockVars
  /\ UNCHANGED refreshVars

\* what follows a findOne of handleDeauthorization that answered r
deauthFound(c, r) ==
  deauth' = [deauth EXCEPT ![c] = [pc |-> "save", id |-> r.id]]

deauthFindByAccountId(c, ok) ==
  /\ deauth[c].pc = "findByAccountId"
  /\ IF ~ok
     THEN deauth' = [deauth EXCEPT ![c] = [pc |-> "done"]]
     ELSE \E r \in findOne(findByAccountId(deauth[c].account_id)) :
            IF r.id # None THEN deauthFound(c, r)
            ELSE deauth' = [deauth EXCEPT ![c] =
                   IF deauth[c].user_id # None
                   THEN [@ EXCEPT !.pc = "findByUserId"] ELSE [pc |-> "done"]]
  /\ UNCHANGED <<instances, automations, created, oauth, upd>>
  /\ UNCHANGED eventVars
  /\ UNCHANGED sockVars
  /\ UNCHANGED refreshVars

deauthFindByUserId(c, ok) ==
  /\ deauth[c].pc = "findByUserId"
  /\ IF ~ok
     THEN deauth' = [deauth EXCEPT ![c] = [pc |-> "done"]]
     ELSE \E r \in findOne(findByAccountId(deauth[c].user_id)) :
            IF r.id # None THEN deauthFound(c, r)
            ELSE deauth' = [deauth EXCEPT ![c] = [pc |-> "done"]]
  /\ UNCHANGED <<instances, automations, created, oauth, upd>>
  /\ UNCHANGED eventVars
  /\ UNCHANGED sockVars
  /\ UNCHANGED refreshVars

\* instance.save(): the modified paths (accessToken, tokenExpiresAt, status) are
\* written to the document with the loaded _id; it throws when the document is gone
deauthSave(c, ok) ==
  /\ deauth[c].pc = "save"
  /\ IF ok /\ deauth[c].id \in DOMAIN instances
     THEN instances' = [instances EXCEPT ![deauth[c].id] =
            setFields(@, [accessToken |-> None, tokenExpiresAt |-> NoDate,
                          status |-> "disconnected"])]
     ELSE UNCHANGED instances
  /\ deauth' = [deauth EXCEPT ![c] = [pc |-> "done"]]
  /\ UNCHANGED <<automations, created, oauth, upd>>
  /\ UNCHANGED eventVars
  /\ UNCHANGED sockVars
  /\ UNCHANGED refreshVars

Users == {"u1", "u2"}
InstanceKeys == {"I1", "I2", "I3"}
PlatformIds == {None, "a1", "a3"}
StatusInputs == {"error", "bogus"}

NextInstances ==
  \/ \E u \in Users : createInstance(u)
  \/ \E id \in InstanceKeys, u \in Users, st \in StatusInputs : updateInstance(id, u, st)
  \/ \E id \in InstanceKeys, u \in Users : deleteInstance(id, u)
  \/ \E id \in InstanceKeys, u \in Users : initiateOAuth(id, u)
  \/ \E c \in Callbacks, id \in InstanceKeys, uid \in PlatformIds,
        aid \in PlatformIds \ {None}, ok \in BOOLEAN :
       handleOAuthCallback(c, id, uid, aid, ok)
  \/ \E c \in Callbacks, ok \in BOOLEAN : oauthGetByIdOnly(c, ok)
  \/ \E c \in Callbacks, ok \in BOOLEAN : oauthConnectInstance(c, ok)
  \/ \E c \in Callbacks, decoded \in BOOLEAN, uid \in PlatformIds, aid \in PlatformIds :
       handleDeauthorization(c, decoded, uid, aid)
  \/ \E c \in Callbacks, ok \in BOOLEAN : deauthFindByAccountId(c, ok)
  \/ \E c \in Callbacks, ok \in BOOLEAN : deauthFindByUserId(c, ok)
  \/ \E c \in Callbacks, ok \in BOOLEAN : deauthSave(c, ok)

\* ------------------------------------------------------------------ automation updates
\* a field of req.body / of updateData is present when it is in the record's domain
Has(b, f) == f \in DOMAIN b

\* the object literal { [f]: v } when the condition holds, {} otherwise
Field(cond, f, v) == IF cond THEN f :> v ELSE [x \in {} |-> x]

\* keywords.filter(k => k && k.trim().length > 0).map(k => k.trim())
validKeywords(ks) == [i \in 1..Len(SelectValid(ks)) |-> trim(SelectValid(ks)[i])]

\* AutomationService.getById: the row as mapRowToAutomation returns it, or null
getById(id) ==
  IF id \in 1..Len(automations) /\ automations[id].instanceId # None
  THEN automations[id] ELSE NoAutomation

\* updateAutomation: finalResponseType and finalTriggerType
finalOf(body, current, f) == IF Has(body, f) THEN body[f] ELSE current[f]

\* updateAutomation: the checks on req.body against the automation read
updateBodyValid(body, current) ==
  /\ finalOf(body, current, "responseType") = "comment" =>
       /\ ~(Has(body, "responseText") /\ Len(trim(body.responseText)) = 0)
       /\ ~(Has(body, "responseSequence") /\ Len(body.responseSequence) > 0)
  /\ finalOf(body, current, "responseType") = "direct" =>
       /\ Has(body, "responseSequence") =>
            /\ Len(body.responseSequence) # 0
            /\ validateResponseSequence(body.responseSequence)
       /\ ~Has(body, "responseSequence") =>
            ~(Has(body, "responseType") /\ current.responseType = "comment")
       /\ ~( /\ Has(body, "responseText")
             /\ Len(trim(body.responseText)) > 0
             /\ (Has(body, "responseSequence") \/ Len(current.responseSequence) > 0) )
  /\ finalOf(body, current, "triggerType") = "keyword" =>
       /\ Has(body, "keywords") =>
            /\ Len(body.keywords) # 0
            /\ Len(SelectValid(body.keywords)) # 0
       /\ ~Has(body, "keywords") =>
            ~(Has(body, "triggerType") /\ current.triggerType # "keyword")

\* updateAutomation: updateData. A responseSequence sent with a final response
\* type 'comment' is assigned undefined, which AutomationService.update reads
\* as a field that is not there.
updateData(body, current) ==
  Field(Has(body, "triggerType"), "triggerType", body.triggerType)
  @@ Field(Has(body, "keywords"), "keywords",
           IF finalOf(body, current, "triggerType") = "keyword"
           THEN validKeywords(body.keywords) ELSE body.keywords)
  @@ Field(Has(body, "responseType"), "responseType", body.responseType)
  @@ Field(Has(body, "responseText"), "responseText",
           IF finalOf(body, current, "responseType") = "comment"
           THEN trim(body.responseText) ELSE <<>>)
  @@ Field(Has(body, "responseSequence")
             /\ finalOf(body, current, "responseType") = "direct",
           "responseSequence", body.responseSequence)
  @@ Field(Has(body, "isActive"), "isActive", body.isActive)

\* AutomationService.update: the keyword checks against the automation it reads
serviceValid(data, current) ==
  finalOf(data, current, "triggerType") = "keyword" =>
    /\ Has(data, "keywords") =>
         /\ Len(data.keywords) # 0
         /\ Len(SelectValid(data.keywords)) # 0
    /\ ~Has(data, "keywords") =>
         ~(Has(data, "triggerType") /\ current.triggerType # "keyword")

\* AutomationService.update: the values of the SET clause
setClause(data, finalTriggerType) ==
  [f \in DOMAIN data |->
     IF f = "keywords"
     THEN IF finalTriggerType = "keyword" THEN validKeywords(data.keywords) ELSE <<>>
     ELSE data[f]]

UpdDone(u) == upd' = [upd EXCEPT ![u] = [pc |-> "done"]]

UpdUnchanged ==
  /\ UNCHANGED <<instances, created, oauth, deauth>>
  /\ UNCHANGED eventVars
  /\ UNCHANGED sockVars
  /\ UNCHANGED refreshVars

\* updateAutomation up to await AutomationService.getById(id, userId)
updateAutomation(u, id, body) ==
  /\ upd[u].pc = "idle"
  /\ upd' = [upd EXCEPT ![u] = [pc |-> "getById", id |-> id, body |-> body]]
  /\ UNCHANGED automations
  /\ UpdUnchanged

\* updateAutomation from the answer of getById to the first await of
\* AutomationService.update; ok = FALSE: the query throws
controllerGetById(u, ok) ==
  /\ upd[u].pc = "getById"
  /\ LET current == getById(upd[u].id)
     IN IF ok /\ current # NoAutomation /\ updateBodyValid(upd[u].body, current)
        THEN upd' = [upd EXCEPT ![u] =
               [pc |-> "serviceGetById", id |-> upd[u].id,
                data |-> updateData(upd[u].body, current)]]
        ELSE UpdDone(u)
  /\ UNCHANGED automations
  /\ UpdUnchanged

\* AutomationService.update from the answer of its getById to the UPDATE query
\* (with no field to set it answers with a second getById instead)
serviceGetById(u, ok) ==
  /\ upd[u].pc = "serviceGetById"
  /\ LET current == getById(upd[u].id)
     IN IF /\ ok
           /\ current # NoAutomation
           /\ serviceValid(upd[u].data, current)
           /\ DOMAIN upd[u].data # {}
        THEN upd' = [upd EXCEPT ![u] =
               [pc |-> "query", id |-> upd[u].id, data |-> upd[u].data,
                finalTriggerType |-> finalOf(upd[u].data, current, "triggerType")]]
        ELSE UpdDone(u)
  /\ UNCHANGED automations
  /\ UpdUnchanged

\* UPDATE instagram_automations SET ... WHERE id = $n
updateQuery(u, ok) ==
  /\ upd[u].pc = "query"
  /\ IF ok /\ getById(upd[u].id) # NoAutomation
     THEN automations' = [automations EXCEPT ![upd[u].id] =
            setFields(@, setClause(upd[u].data, upd[u].finalTriggerType))]
     ELSE UNCHANGED automations
  /\ UpdDone(u)
  /\ UpdUnchanged

\* request bodies of POST /automations and PUT /automations/:id
UpdateRules ==
  { Rule("I1", "dm", "keyword", <<hi>>, "direct"),
    Rule("I1", "dm", "all", <<>>, "direct"),
    Rule("I1", "comment", "all", <<>>, "comment") }

UpdateBodies ==
  { [triggerType |-> "all"],
    [triggerType |-> "keyword"],
    [triggerType |-> "keyword", keywords |-> <<Blank, HiPadded>>],
    [triggerType |-> "all", keywords |-> <<hi>>],
    [keywords |-> <<yo>>],
    [keywords |-> <<Blank>>],
    [keywords |-> <<>>],
    [responseType |-> "comment", responseText |-> <<"x">>],
    [responseType |-> "comment", responseText |-> <<"x">>, responseSequence |-> <<>>],
    [responseType |-> "comment", responseSequence |-> TwoSteps],
    [responseType |-> "direct", responseSequence |-> TwoSteps],
    [responseType |-> "direct"],
    [responseText |-> Blank],
    [isActive |-> FALSE] }

NextAutomations ==
  \/ \E data \in UpdateRules : createAutomation(data)
  \/ \E u \in Updates, id \in 1..MaxAutomations, body \in UpdateBodies :
       updateAutomation(u, id, body)
  \/ \E u \in Updates, ok \in BOOLEAN : controllerGetById(u, ok)
  \/ \E u \in Updates, ok \in BOOLEAN : serviceGetById(u, ok)
  \/ \E u \in Updates, ok \in BOOLEAN : updateQuery(u, ok)

\* ------------------------------------------------------------------ management during processing
\* DELETE FROM instagram_automations WHERE id = $1: the row is gone. Its place
\* in creation order stays taken (ids are not reused) by a row of no channel,
\* which no query answers.
DeletedRow(id) ==
  [id |-> id, createdAt |-> id, instanceId |-> None, type |-> None,
   triggerType |-> "all", keywords |-> <<>>, responseText |-> <<>>,
   responseType |-> None, responseSequence |-> <<>>, isActive |-> FALSE]

\* deleteAutomation: await AutomationService.delete(id, userId); ok = FALSE:
\* the query throws
deleteAutomation(id, ok) ==
  /\ getById(id) # NoAutomation
  /\ IF ok
     THEN automations' = [automations EXCEPT ![id] = DeletedRow(id)]
     ELSE UNCHANGED automations
  /\ UNCHANGED <<instances, created, oauth, deauth, upd>>
  /\ UNCHANGED eventVars
  /\ UNCHANGED sockVars
  /\ UNCHANGED refreshVars

\* one delivery with a direct message and a comment, on a channel with one
\* automation for each
RaceBodies ==
  { Body("instagram",
      <<Entry(<<DM("m1", Hi, FALSE)>>, <<Change("c1", Hi, "comments")>>)>>) }

RaceInputs ==
  { Rule("I1", "dm", "all", <<>>, "direct"),
    Rule("I1", "comment", "all", <<>>, "comment") }

RaceUpdates ==
  { [isActive |-> FALSE],
    [responseText |-> <<"x">>] }

NextRace ==
  \/ \E body \in RaceBodies, throws \in BOOLEAN : handleWebhook(1, "n1", body, throws)
  \/ \E ok \in BOOLEAN : ResolveByName(1, ok)
  \/ \E ok \in BOOLEAN : InsertEvent(1, ok)
  \/ \E ok \in BOOLEAN : MatchEvent(1, ok)
  \/ \E ok \in BOOLEAN : LoadToken(1, ok)
  \/ \E ok \in BOOLEAN : SendResponse(1, ok)
  \/ \E ok \in BOOLEAN : ReportSent(1, ok)
  \/ \E ok \in BOOLEAN : MarkReplied(1, ok)
  \/ \E ok \in BOOLEAN : ReportFailed(1, ok)
  \/ \E data \in RaceInputs : createAutomation(data)
  \/ \E u \in Updates, id \in 1..MaxAutomations, body \in RaceUpdates :
       updateAutomation(u, id, body)
  \/ \E u \in Updates, ok \in BOOLEAN : controllerGetById(u, ok)
  \/ \E u \in Updates, ok \in BOOLEAN : serviceGetById(u, ok)
  \/ \E u \in Updates, ok \in BOOLEAN : updateQuery(u, ok)
  \/ \E id \in 1..MaxAutomations, ok \in BOOLEAN : deleteAutomation(id, ok)

\* ------------------------------------------------------------------ resolution
\* deliveries whose routing key is an Instagram id, next to OAuth connects
ResolveRoutes == {"a1", "a3", "zz"}

ResolveBodies == { Body("instagram", <<>>) }

NextResolve ==
  \/ \E d \in Deliveries, route \in ResolveRoutes, body \in ResolveBodies,
        throws \in BOOLEAN : handleWebhook(d, route, body, throws)
  \/ \E d \in Deliveries, ok \in BOOLEAN : ResolveByName(d, ok)
  \/ \E d \in Deliveries, ok \in BOOLEAN : ResolveByAccount(d, ok)
  \/ \E c \in Callbacks, id \in InstanceKeys, uid \in PlatformIds,
        aid \in PlatformIds \ {None}, ok \in BOOLEAN :
       handleOAuthCallback(c, id, uid, aid, ok)
  \/ \E c \in Callbacks, ok \in BOOLEAN : oauthGetByIdOnly(c, ok)
  \/ \E c \in Callbacks, ok \in BOOLEAN : oauthConnectInstance(c, ok)

\* ------------------------------------------------------------------ socket client
MAX_RECONNECT_ATTEMPTS == 3

\* every variable but those of the socket client
appVars == <<instances, automations, messages, comments, reports, sends, matchLog,
             updates, pc, req, idx, inst, auto, tok, res, verifyLog, probe,
             created, oauth, deauth, upd, now, refresh>>

\* the body of connectSocket; throws: io() raises. The new Socket starts to
\* open its connection, with reconnectionAttempts: MAX_RECONNECT_ATTEMPTS.
connectSocketBody(throws) ==
  IF socket # "null" /\ isConnected
  THEN UNCHANGED <<socket, reconnectAttempts, hasWarnedAboutConnection, manager>>
  ELSE IF reconnectAttempts >= MAX_RECONNECT_ATTEMPTS
  THEN /\ hasWarnedAboutConnection' = TRUE
       /\ UNCHANGED <<socket, reconnectAttempts, manager>>
  ELSE IF throws
  THEN /\ reconnectAttempts' = reconnectAttempts + 1
       /\ UNCHANGED <<socket, hasWarnedAboutConnection, manager>>
  ELSE /\ socket' = "io"
       /\ manager' = [state |-> "opening", attempts |-> 0]
       /\ UNCHANGED <<reconnectAttempts, hasWarnedAboutConnection>>

\* connectSocket as server.ts calls it: no Socket exists yet
connectSocket(throws) ==
  /\ socket = "null"
  /\ connectSocketBody(throws)
  /\ UNCHANGED <<isConnected, pendingEvents, emitted>>
  /\ UNCHANGED appVars

\* the payload emitInstagramUpdate builds; the data of the n-th call is n
eventData(userId, data) == [userId |-> userId, data |-> data]

\* emitInstagramUpdate: connect when there is no Socket, then emit when
\* connected and queue otherwise
emitInstagramUpdate(userId, data, throws) ==
  /\ Len(emitted) + Len(pendingEvents) < MaxEmits
  /\ data = Len(emitted) + Len(pendingEvents) + 1
  /\ IF socket = "null"
     THEN connectSocketBody(throws)
     ELSE UNCHANGED <<socket, reconnectAttempts, hasWarnedAboutConnection, manager>>
  /\ IF socket' # "null" /\ isConnected
     THEN /\ emitted' = Append(emitted, [event |-> "instagram-updated",
                                         data |-> eventData(userId, data),
                                         queued |-> FALSE])
          /\ UNCHANGED pendingEvents
     ELSE /\ pendingEvents' = Append(pendingEvents,
                 [event |-> "instagram-updated", data |-> eventData(userId, data)])
          /\ UNCHANGED emitted
  /\ UNCHANGED isConnected
  /\ UNCHANGED appVars

\* the queue is emptied from its end
flushReversed(queue) ==
  [i \in 1..Len(queue) |->
     [event |-> queue[Len(queue) + 1 - i].event,
      data |-> queue[Len(queue) + 1 - i].data, queued |-> TRUE]]

\* the while loop of the 'connect' handler: shift and emit until the queue is empty
flush(queue) ==
  [i \in 1..Len(queue) |-> [event |-> queue[i].event, data |-> queue[i].data,
                            queued |-> TRUE]]

\* socket.on('connect'): the connection opened
onConnect ==
  /\ socket = "io"
  /\ manager.state = "opening"
  /\ manager' = [state |-> "open", attempts |-> 0]
  /\ isConnected' = TRUE
  /\ reconnectAttempts' = 0
  /\ hasWarnedAboutConnection' = FALSE
  /\ emitted' = emitted \o flush(pendingEvents)
  /\ pendingEvents' = <<>>
  /\ UNCHANGED socket
  /\ UNCHANGED appVars

\* socket.on('disconnect'): the connection was lost; socket.io reconnects
onDisconnect ==
  /\ socket = "io"
  /\ manager.state = "open"
  /\ manager' = [state |-> "opening", attempts |-> 0]
  /\ isConnected' = FALSE
  /\ UNCHANGED <<socket, reconnectAttempts, hasWarnedAboutConnection,
                 pendingEvents, emitted>>
  /\ UNCHANGED appVars

\* socket.on('connect_error'): an attempt failed; socket.io tries again until
\* reconnectionAttempts reconnections have failed, then gives up
onConnectError ==
  /\ socket = "io"
  /\ manager.state = "opening"
  /\ manager' = IF manager.attempts < MAX_RECONNECT_ATTEMPTS
                THEN [state |-> "opening", attempts |-> manager.attempts + 1]
                ELSE [state |-> "closed", attempts |-> manager.attempts]
  /\ reconnectAttempts' = reconnectAttempts + 1
  /\ hasWarnedAboutConnection' = TRUE
  /\ UNCHANGED <<socket, isConnected, pendingEvents, emitted>>
  /\ UNCHANGED appVars

\* disconnectSocket
disconnectSocket ==
  /\ socket # "null"
  /\ socket' = "null"
  /\ isConnected' = FALSE
  /\ manager' = [state |-> "none", attempts |-> 0]
  /\ UNCHANGED <<reconnectAttempts, hasWarnedAboutConnection, pendingEvents, emitted>>
  /\ UNCHANGED appVars

NextSocket ==
  \/ \E throws \in BOOLEAN : connectSocket(throws)
  \/ \E userId \in Users, data \in 1..MaxEmits, throws \in BOOLEAN :
       emitInstagramUpdate(userId, data, throws)
  \/ onConnect
  \/ onDisconnect
  \/ onConnectError
  \/ disconnectSocket

\* ------------------------------------------------------------------ dispatch by kind
\* automations of every (type, responseType) combination the createAutomation
\* handler accepts
DispatchInputs ==
  { Rule("I1", "dm", "all", <<>>, "direct"),
    Rule("I1", "dm", "all", <<>>, "comment"),
    Rule("I1", "comment", "all", <<>>, "direct"),
    Rule("I1", "comment", "all", <<>>, "comment") }

NextDispatch ==
  \/ \E body \in RaceBodies, throws \in BOOLEAN : handleWebhook(1, "n1", body, throws)
  \/ \E ok \in BOOLEAN : ResolveByName(1, ok)
  \/ \E ok \in BOOLEAN : InsertEvent(1, ok)
  \/ \E ok \in BOOLEAN : MatchEvent(1, ok)
  \/ \E ok \in BOOLEAN : LoadToken(1, ok)
  \/ \E ok \in BOOLEAN : SendResponse(1, ok)
  \/ \E ok \in BOOLEAN : ReportSent(1, ok)
  \/ \E ok \in BOOLEAN : MarkReplied(1, ok)
  \/ \E ok \in BOOLEAN : ReportFailed(1, ok)
  \/ \E data \in DispatchInputs : createAutomation(data)

\* ------------------------------------------------------------------ dispatch without a token
\* one delivery with a direct message for channel I1, next to OAuth connects
\* and deauthorizations naming the Instagram accounts a1 and a2
TokenBodies == { Body("instagram", <<Entry(<<DM("m1", Hi, FALSE)>>, <<>>)>>) }

TokenInputs == { Rule("I1", "dm", "all", <<>>, "direct") }

NextToken ==
  \/ \E body \in TokenBodies, throws \in BOOLEAN : handleWebhook(1, "n1", body, throws)
  \/ \E ok \in BOOLEAN : ResolveByName(1, ok)
  \/ \E ok \in BOOLEAN : InsertEvent(1, ok)
  \/ \E ok \in BOOLEAN : MatchEvent(1, ok)
  \/ \E ok \in BOOLEAN : LoadToken(1, ok)
  \/ \E ok \in BOOLEAN : SendResponse(1, ok)
  \/ \E ok \in BOOLEAN : ReportSent(1, ok)
  \/ \E ok \in BOOLEAN : MarkReplied(1, ok)
  \/ \E ok \in BOOLEAN : ReportFailed(1, ok)
  \/ \E data \in TokenInputs : createAutomation(data)
  \/ \E c \in Callbacks, id \in {"I1", "I2"}, uid \in {None, "a1"},
        aid \in {"a1", "a2"}, ok \in BOOLEAN :
       handleOAuthCallback(c, id, uid, aid, ok)
  \/ \E c \in Callbacks, ok \in BOOLEAN : oauthGetByIdOnly(c, ok)
  \/ \E c \in Callbacks, ok \in BOOLEAN : oauthConnectInstance(c, ok)
  \/ \E c \in Callbacks, decoded \in BOOLEAN, uid \in {None, "a1"},
        aid \in {None, "a1", "a2"} :
       handleDeauthorization(c, decoded, uid, aid)
  \/ \E c \in Callbacks, ok \in BOOLEAN : deauthFindByAccountId(c, ok)
  \/ \E c \in Callbacks, ok \in BOOLEAN : deauthFindByUserId(c, ok)
  \/ \E c \in Callbacks, ok \in BOOLEAN : deauthSave(c, ok)

\* ------------------------------------------------------------------ token refresh
RefreshWindowDays == 7

\* every variable but the instances, the clock and the refresh calls
restVars == <<automations, messages, comments, reports, sends, matchLog,
              updates, pc, req, idx, inst, auto, tok, res, verifyLog, probe,
              created, oauth, deauth, upd>>

\* time passes
Tick ==
  /\ now < MaxNow
  /\ now' = now + 1
  /\ UNCHANGED <<instances, refresh>>
  /\ UNCHANGED restVars
  /\ UNCHANGED sockVars

\* Math.floor((tokenExpiresAt - Date.now()) / (1000 * 60 * 60 * 24))
daysUntilExpiry(tokenExpiresAt) == (tokenExpiresAt - now) \div TicksPerDay

RefreshDone(r, result) ==
  refresh' = [refresh EXCEPT ![r] = [pc |-> "done", result |-> result]]

\* refreshInstanceToken up to await InstagramInstance.findById(instanceId)
refreshInstanceToken(r, instanceId) ==
  /\ refresh[r].pc = "idle"
  /\ \A q \in Refreshes : q < r => refresh[q].pc # "idle"
  /\ refresh' = [refresh EXCEPT ![r] = [pc |-> "findById", instanceId |-> instanceId]]
  /\ UNCHANGED <<instances, now>>
  /\ UNCHANGED restVars
  /\ UNCHANGED sockVars

\* findById answers: the checks, then await refreshLongLivedToken(accessToken);
\* ok = FALSE: the query throws
refreshFindById(r, ok) ==
  /\ refresh[r].pc = "findById"
  /\ LET id == refresh[r].instanceId
     IN IF ~ok \/ id \notin DOMAIN instances
        THEN RefreshDone(r, FALSE)
        ELSE IF instances[id].accessToken = None \/ instances[id].tokenExpiresAt = NoDate
        THEN RefreshDone(r, FALSE)
        ELSE IF daysUntilExpiry(instances[id].tokenExpiresAt) > RefreshWindowDays
        THEN RefreshDone(r, TRUE)
        ELSE refresh' = [refresh EXCEPT ![r] =
               [pc |-> "refreshLongLivedToken", instanceId |-> id,
                accessToken |-> instances[id].accessToken]]
  /\ UNCHANGED <<instances, now>>
  /\ UNCHANGED restVars
  /\ UNCHANGED sockVars

\* the platform answers the refresh call with a new token; ok = FALSE: it throws
refreshLongLivedToken(r, ok) ==
  /\ refresh[r].pc = "refreshLongLivedToken"
  /\ IF ok
     THEN refresh' = [refresh EXCEPT ![r] =
            [pc |-> "updateAccessToken", instanceId |-> refresh[r].instanceId,
             access_token |-> "t3",
             newExpiresAt |-> now + ExpiresInDays * TicksPerDay]]
     ELSE RefreshDone(r, FALSE)
  /\ UNCHANGED <<instances, now>>
  /\ UNCHANGED restVars
  /\ UNCHANGED sockVars

\* InstanceService.updateAccessToken:
\* findByIdAndUpdate(id, { $set: { accessToken, tokenExpiresAt } })
updateAccessToken(id, accessToken, tokenExpiresAt) ==
  instances' = [i \in DOMAIN instances |->
     IF i = id
     THEN setFields(instances[i],
            [accessToken |-> accessToken, tokenExpiresAt |-> tokenExpiresAt])
     ELSE instances[i]]

\* await InstanceService.updateAccessToken(...); ok = FALSE: it throws
refreshUpdateAccessToken(r, ok) ==
  /\ refresh[r].pc = "updateAccessToken"
  /\ IF ok
     THEN /\ updateAccessToken(refresh[r].instanceId, refresh[r].access_token,
                               refresh[r].newExpiresAt)
          /\ RefreshDone(r, TRUE)
     ELSE /\ UNCHANGED instances
          /\ RefreshDone(r, FALSE)
  /\ UNCHANGED now
  /\ UNCHANGED restVars
  /\ UNCHANGED sockVars

NextRefresh ==
  \/ Tick
  \/ \E r \in Refreshes, id \in InstanceKeys : refreshInstanceToken(r, id)
  \/ \E r \in Refreshes, ok \in BOOLEAN : refreshFindById(r, ok)
  \/ \E r \in Refreshes, ok \in BOOLEAN : refreshLongLivedToken(r, ok)
  \/ \E r \in Refreshes, ok \in BOOLEAN : refreshUpdateAccessToken(r, ok)
  \/ \E c \in Callbacks, id \in {"I1", "I2"}, uid \in {None},
        aid \in {"a1", "a2"}, ok \in BOOLEAN :
       handleOAuthCallback(c, id, uid, aid, ok)
  \/ \E c \in Callbacks, ok \in BOOLEAN : oauthGetByIdOnly(c, ok)
  \/ \E c \in Callbacks, ok \in BOOLEAN : oauthConnectInstance(c, ok)
  \/ \E c \in Callbacks, decoded \in BOOLEAN, uid \in {None, "a1"},
        aid \in {None, "a1", "a2"} :
       handleDeauthorization(c, decoded, uid, aid)
  \/ \E c \in Callbacks, ok \in BOOLEAN : deauthFindByAccountId(c, ok)
  \/ \E c \in Callbacks, ok \in BOOLEAN : deauthFindByUserId(c, ok)
  \/ \E c \in Callbacks, ok \in BOOLEAN : deauthSave(c, ok)

\* ------------------------------------------------------------------ specification
Init ==
  /\ instances = [i \in {"I1", "I2"} |->
       IF i = "I1"
       THEN [id |-> "I1", userId |-> "u1", instanceName |-> "n1", instagramAccountId |-> "a1",
             webhookIds |-> {"w1"}, accessToken |-> "t1",
             tokenExpiresAt |-> 8 * TicksPerDay + 1, status |-> "connected"]
       ELSE [id |-> "I2", userId |-> "u2", instanceName |-> "n2", instagramAccountId |-> "a2",
             webhookIds |-> {"w2"}, accessToken |-> None,
             tokenExpiresAt |-> NoDate, status |-> "disconnected"]]
  /\ automations = <<>>
  /\ messages = {}
  /\ comments = {}
  /\ reports = {}
  /\ sends = {}
  /\ matchLog = {}
  /\ updates = {}
  /\ pc = [d \in Deliveries |-> "idle"]
  /\ req = [d \in Deliveries |-> [route |-> None, body |-> Body(None, <<>>)]]
  /\ idx = [d \in Deliveries |-> 0]
  /\ inst = [d \in Deliveries |-> NoInstance]
  /\ auto = [d \in Deliveries |-> NoAutomation]
  /\ tok = [d \in Deliveries |-> None]
  /\ res = [d \in Deliveries |-> <<>>]
  /\ verifyLog = <<>>
  /\ probe = <<>>
  /\ created = 2
  /\ oauth = [c \in Callbacks |-> [pc |-> "idle"]]
  /\ deauth = [c \in Callbacks |-> [pc |-> "idle"]]
  /\ upd = [u \in Updates |-> [pc |-> "idle"]]
  /\ socket = "null"
  /\ isConnected = FALSE
  /\ hasWarnedAboutConnection = FALSE
  /\ reconnectAttempts = 0
  /\ pendingEvents = <<>>
  /\ emitted = <<>>
  /\ manager = [state |-> "none", attempts |-> 0]
  /\ now = 0
  /\ refresh = [r \in Refreshes |-> [pc |-> "idle"]]

Next ==
  \/ \E d \in Deliveries, route \in Routes, body \in Bodies, throws \in BOOLEAN :
       handleWebhook(d, route, body, throws)
  \/ \E d \in Deliveries, ok \in BOOLEAN : ResolveByName(d, ok)
  \/ \E d \in Deliveries, ok \in BOOLEAN : ResolveByAccount(d, ok)
  \/ \E d \in Deliveries, ok \in BOOLEAN : InsertEvent(d, ok)
  \/ \E d \in Deliveries, ok \in BOOLEAN : MatchEvent(d, ok)
  \/ \E d \in Deliveries, ok \in BOOLEAN : LoadToken(d, ok)
  \/ \E d \in Deliveries, ok \in BOOLEAN : SendResponse(d, ok)
  \/ \E d \in Deliveries, ok \in BOOLEAN : ReportSent(d, ok)
  \/ \E d \in Deliveries, ok \in BOOLEAN : MarkReplied(d, ok)
  \/ \E d \in Deliveries, ok \in BOOLEAN : ReportFailed(d, ok)
  \/ \E data \in AutomationInputs : createAutomation(data)

Spec == Init /\ [][Next]_vars

NextMatch ==
  \/ \E data \in RuleInputs : createRule(data)
  \/ \E id \in 1..MaxRules : toggleRule(id)
  \/ \E instanceId \in {"I1", "I2"}, type \in {"dm", "comment"}, text \in Texts :
       callFindMatching(instanceId, type, text)

SpecMatch == Init /\ [][NextMatch]_vars

\* one delivery with several sub-events in several entries
OrderBodies ==
  { Body("instagram",
      <<Entry(<<DM("m1", Hi, FALSE), DM("m2", yo, FALSE)>>,
              <<Change("c1", Hi, "comments")>>),
        Entry(<<DM("m3", Hi, FALSE)>>, <<Change("c2", yo, "comments")>>)>>) }

OrderInputs ==
  { Rule("I1", "dm", "all", <<>>, "direct"),
    Rule("I1", "comment", "all", <<>>, "comment") }

NextOrder ==
  \/ \E body \in OrderBodies, throws \in BOOLEAN : handleWebhook(1, "n1", body, throws)
  \/ \E ok \in BOOLEAN : ResolveByName(1, ok)
  \/ \E ok \in BOOLEAN : InsertEvent(1, ok)
  \/ \E ok \in BOOLEAN : MatchEvent(1, ok)
  \/ \E ok \in BOOLEAN : LoadToken(1, ok)
  \/ \E ok \in BOOLEAN : SendResponse(1, ok)
  \/ \E ok \in BOOLEAN : ReportSent(1, ok)
  \/ \E ok \in BOOLEAN : MarkReplied(1, ok)
  \/ \E ok \in BOOLEAN : ReportFailed(1, ok)
  \/ \E data \in OrderInputs : createAutomation(data)

SpecOrder == Init /\ [][NextOrder]_vars

NextVerify ==
  \E mode \in Modes, token \in Tokens, challenge \in Challenges :
    getWebhook(mode, token, challenge)

SpecVerify == Init /\ [][NextVerify]_vars

SpecInstances == Init /\ [][NextInstances]_vars

SpecAutomations == Init /\ [][NextAutomations]_vars

SpecResolve == Init /\ [][NextResolve]_vars

SpecRace == Init /\ [][NextRace]_vars

SpecSocket == Init /\ [][NextSocket]_vars

SpecDispatch == Init /\ [][NextDispatch]_vars

SpecToken == Init /\ [][NextToken]_vars

SpecRefresh == Init /\ [][NextRefresh]_vars

\* deliveries whose awaited calls all return or fail
LiveBodies ==
  { Body("instagram",
      <<Entry(<<DM("m1", Hi, FALSE), DM("m2", yo, TRUE)>>,
              <<Change("c1", Hi, "comments")>>)>>) }

LiveInputs == { Rule("I1", "dm", "all", <<>>, "direct") }

\* one resumption of processWebhook for delivery d
ProcessStep(d) ==
  \/ \E ok \in BOOLEAN : ResolveByName(d, ok)
  \/ \E ok \in BOOLEAN : ResolveByAccount(d, ok)
  \/ \E ok \in BOOLEAN : InsertEvent(d, ok)
  \/ \E ok \in BOOLEAN : MatchEvent(d, ok)
  \/ \E ok \in BOOLEAN : LoadToken(d, ok)
  \/ \E ok \in BOOLEAN : SendResponse(d, ok)
  \/ \E ok \in BOOLEAN : ReportSent(d, ok)
  \/ \E ok \in BOOLEAN : MarkReplied(d, ok)
  \/ \E ok \in BOOLEAN : ReportFailed(d, ok)

NextLive ==
  \/ \E d \in Deliveries, route \in {"n1", "zz"}, body \in LiveBodies,
        throws \in BOOLEAN : handleWebhook(d, route, body, throws)
  \/ \E d \in Deliveries : ProcessStep(d)
  \/ \E data \in LiveInputs : createAutomation(data)

\* every awaited call of a started delivery eventually returns or fails
SpecLive ==
  Init /\ [][NextLive]_vars /\ \A d \in Deliveries : WF_vars(ProcessStep(d))

\* ------------------------------------------------------------------ properties
Ack200 == [status |-> 200, body |-> "EVENT_RECEIVED"]

ItemAt(src) == Items(req[src[1]].body)[src[2]]

Awaiting ==
  {"getByInstanceName", "getByInstagramAccountId", "insert", "findMatchingAutomation",
   "getInstanceWithToken", "send", "reportSent", "markReplied", "reportFailed"}

\* C1: every POST delivery is answered exactly once, with status 200 and the
\* body EVENT_RECEIVED, whatever the body and whatever fails afterwards; a
\* delivery not yet received has no answer.
C1_AlwaysAcknowledged ==
  \A d \in Deliveries :
    /\ pc[d] = "idle" => res[d] = <<>>
    /\ pc[d] # "idle" => res[d] = <<Ack200>>

\* C1 witness: one delivery was answered from the catch block, and another was
\* answered although its send call failed.
C1_Witness ==
  \E d1, d2 \in Deliveries :
    /\ pc[d1] = "aborted" /\ res[d1] = <<Ack200>>
    /\ pc[d2] = "done" /\ res[d2] = <<Ack200>>
    /\ \E s \in sends : s.src[1] = d2 /\ ~s.ok

\* C2: the acknowledgment does not wait for downstream work: while any awaited
\* call of a delivery is still pending the answer is already written, and when
\* the first lookup is pending nothing downstream has happened for the delivery.
C2_AckNotAwaited ==
  \A d \in Deliveries :
    /\ pc[d] \in Awaiting => Len(res[d]) = 1
    /\ pc[d] = "getByInstanceName" =>
         /\ inst[d] = NoInstance
         /\ ~\E m \in matchLog : m.src[1] = d
         /\ ~\E s \in sends : s.src[1] = d
         /\ ~\E r \in reports : r.src[1] = d

\* C2 witness: the answer is out while the platform send call is in flight.
C2_Witness ==
  \E d \in Deliveries : pc[d] = "send" /\ res[d] = <<Ack200>>

\* C3 as stated: the handshake answers 200 with the challenge iff the verify
\* token equals the configured secret, and 403 otherwise.
C3_TokenAloneDecides ==
  \A i \in 1..Len(verifyLog) :
    LET e == verifyLog[i]
    IN /\ (e.response.status = 200 /\ e.response.body = e.challenge)
            <=> (e.token = VERIFY_TOKEN)
       /\ e.token # VERIFY_TOKEN => e.response.status = 403

\* C3 amended: the handshake answers 200 with the challenge iff hub.mode is
\* 'subscribe' and the verify token equals the configured secret; in every
\* other case it answers 403.
C3_ModeAndTokenDecide ==
  \A i \in 1..Len(verifyLog) :
    LET e == verifyLog[i]
        accepted == e.mode = "subscribe" /\ e.token = VERIFY_TOKEN
    IN /\ (e.response.status = 200 /\ e.response.body = e.challenge) <=> accepted
       /\ ~accepted => e.response.status = 403

\* C3 witness: a handshake with the right token and another mode was refused,
\* and one with the right token and mode 'subscribe' was accepted.
C3_Witness ==
  /\ \E i \in 1..Len(verifyLog) :
       /\ verifyLog[i].token = VERIFY_TOKEN /\ verifyLog[i].mode = "unsubscribe"
       /\ verifyLog[i].response.status = 403
  /\ \E i \in 1..Len(verifyLog) :
       /\ verifyLog[i].token = VERIFY_TOKEN /\ verifyLog[i].mode = "subscribe"
       /\ verifyLog[i].response = [status |-> 200, body |-> "xyz123"]

\* C4: a messaging event flagged is_echo never reaches the matcher: it has no
\* findMatchingAutomation call, no send call and no report row.
C4_EchoNeverMatched ==
  \A d \in Deliveries :
    \A i \in 1..Len(Items(req[d].body)) :
      LET item == Items(req[d].body)[i]
      IN (item.kind = "messaging" /\ item.is_echo) =>
           /\ ~\E m \in matchLog : m.src = <<d, i>>
           /\ ~\E s \in sends : s.src = <<d, i>>
           /\ ~\E r \in reports : r.src = <<d, i>>

\* C4 witness: a delivery whose first event is an echo has gone past it and
\* matched the event that follows.
C4_Witness ==
  \E d \in Deliveries :
    /\ Len(Items(req[d].body)) >= 2
    /\ Items(req[d].body)[1].is_echo
    /\ \E m \in matchLog : m.src = <<d, 2>>

MessageKeysUnique ==
  \A r1, r2 \in messages :
    (r1.message_id = r2.message_id /\ r1.instance_id = r2.instance_id) => r1 = r2

CommentKeysUnique ==
  \A r1, r2 \in comments : r1.comment_id = r2.comment_id => r1 = r2

\* C5: after every step the message table holds at most one row per
\* (message id, channel) and the comment table at most one row per comment id,
\* and the step that executes an event insert keeps every existing row as it was.
C5_UniqueEventRows ==
  [][ /\ MessageKeysUnique'
      /\ CommentKeysUnique'
      /\ \A d \in Deliveries :
           (pc[d] = "insert" /\ <<pc[d], idx[d]>> # <<pc'[d], idx'[d]>>) =>
             /\ messages \subseteq messages'
             /\ comments \subseteq comments' ]_vars

\* C5 witness: two deliveries have inserted the same message id for the same
\* channel with different texts, and the one stored row still has the text of
\* one of them and differs from the other.
C5_Witness ==
  \E a, b \in matchLog :
    /\ a.src[1] # b.src[1] /\ a.kind = "dm" /\ b.kind = "dm"
    /\ a.key = b.key /\ a.instanceId = b.instanceId
    /\ ItemAt(a.src).text # ItemAt(b.src).text
    /\ \E r \in messages :
         /\ r.message_id = a.key /\ r.instance_id = a.instanceId
         /\ r.text = ItemAt(a.src).text
    /\ Cardinality({r \in messages :
          r.message_id = a.key /\ r.instance_id = a.instanceId}) = 1

\* C6: the recorder is idempotent per natural key: an event delivered more
\* than once (same message id and channel, or same comment id) ends with one
\* report row, not one per delivery.
C6_OneReportPerEvent ==
  \A r1, r2 \in reports :
    ( /\ r1.src[1] # r2.src[1]
      /\ r1.interactionType = r2.interactionType
      /\ r1.key = r2.key
      /\ (r1.interactionType = "dm" => r1.instanceId = r2.instanceId) ) => FALSE

\* C7: an event for which the channel has no active automation of its kind
\* whose trigger accepts the text produces no report row and no send call.
C7_NoMatchNoDispatch ==
  \A m \in matchLog :
    m.eligible = 0 =>
      /\ ~\E s \in sends : s.src = m.src
      /\ ~\E r \in reports : r.src = m.src

\* C7 witness: an event was looked up on a channel that has an active keyword
\* rule of its kind, none of whose keywords occurs in the text, and an inactive
\* match-all rule of its kind; the delivery has finished, and nothing was sent
\* or reported for it.
C7_Witness ==
  \E m \in matchLog :
    /\ m.eligible = 0
    /\ pc[m.src[1]] = "done"
    /\ \E i \in 1..Len(automations) :
         /\ automations[i].isActive /\ automations[i].triggerType = "keyword"
         /\ automations[i].instanceId = m.instanceId /\ automations[i].type = m.kind
    /\ \E j \in 1..Len(automations) :
         /\ ~automations[j].isActive /\ automations[j].triggerType = "all"
         /\ automations[j].instanceId = m.instanceId /\ automations[j].type = m.kind
    /\ Eligible(automations, m.instanceId, m.kind, ItemAt(m.src).text) = {}
    /\ ~\E s \in sends : s.src = m.src

ProbeEligible ==
  Eligible(automations, probe.instanceId, probe.type, probe.text)

\* C8: findMatchingAutomation returns a keyword rule only if the text contains
\* one of its keywords as a case-insensitive substring, and returns none
\* exactly when no active rule of the kind on the channel is match-all or has
\* such a keyword hit.
C8_KeywordMatch ==
  probe # <<>> =>
    /\ (probe.result.id # 0 /\ probe.result.triggerType = "keyword") =>
         \E n \in 1..Len(probe.result.keywords) :
           ContainsCI(probe.text, probe.result.keywords[n])
    /\ probe.result.id = 0 <=> ProbeEligible = {}

\* C8 witness: a keyword rule was returned for a text that contains its
\* keyword only up to case, and no match-all rule was eligible.
C8_Witness ==
  /\ probe # <<>>
  /\ probe.result.id # 0
  /\ probe.result.triggerType = "keyword"
  /\ probe.text = <<"y", "O", "h", "I">>
  /\ probe.result.keywords = <<hi>>
  /\ \A i \in ProbeEligible : automations[i].triggerType = "keyword"

\* C9: when several active rules of the channel and kind match, the one
\* created most recently is returned, match-all or keyword alike.
C9_MostRecentWins ==
  (probe # <<>> /\ ProbeEligible # {}) =>
    /\ probe.result.id \in ProbeEligible
    /\ \A i \in ProbeEligible :
         automations[i].createdAt <= probe.result.createdAt

\* C9 witness: a match-all rule and a keyword rule both match and the keyword
\* rule, created later, was returned.
C9_Witness ==
  /\ probe # <<>>
  /\ Cardinality(ProbeEligible) >= 2
  /\ \E i, j \in ProbeEligible :
       /\ i < j
       /\ automations[i].triggerType = "all"
       /\ automations[j].triggerType = "keyword"
       /\ probe.result.id = j

\* C10: at most one automation is dispatched per sub-event, it is the one
\* the matcher selected, and its interaction kind is the event's kind.
C10_AtMostOneFires ==
  /\ \A s1, s2 \in sends : s1.src = s2.src => s1 = s2
  /\ \A s \in sends :
       /\ s.automationType = interactionType(ItemAt(s.src))
       /\ \E m \in matchLog : m.src = s.src /\ m.result = s.automationId

\* C10 witness: two active rules matched one event and one send call was made.
C10_Witness ==
  \E m \in matchLog :
    /\ m.eligible >= 2
    /\ Cardinality({s \in sends : s.src = m.src}) = 1

SentFor(src) == {s \in sends : s.src = src}

ReportsFor(src) == {r \in reports : r.src = src}

ItemSteps ==
  {"insert", "findMatchingAutomation", "getInstanceWithToken", "send", "reportSent",
   "markReplied", "reportFailed"}

\* C11: a processing that dispatched a response has one report row, whose
\* status is the result of the send call (sent when it succeeded, failed when
\* it did not), whatever later step fails.
C11_ReportEqualsDispatch ==
  \A s \in sends :
    /\ Cardinality(ReportsFor(s.src)) <= 1
    /\ \A r \in ReportsFor(s.src) :
         r.responseStatus = IF s.ok THEN "sent" ELSE "failed"

\* C12: a failed send call is followed by the write of a failed report and by
\* no second send call: the only rows of the processing are failed rows, the
\* row is there once the catch block has completed, and the call is the only one.
C12_FailedSendReported ==
  \A s \in sends :
    ~s.ok =>
      /\ SentFor(s.src) = {s}
      /\ \A r \in ReportsFor(s.src) : r.responseStatus = "failed"
      /\ Cardinality(ReportsFor(s.src)) <= 1
      /\ (idx[s.src[1]] = s.src[2] /\ pc[s.src[1]] # "done") =>
           pc[s.src[1]] = "reportFailed"
      /\ s.src \in updates => ReportsFor(s.src) # {}

\* C12 witness: a send call failed, the delivery has finished, and the
\* processing has one send call and one report row, with status failed.
C12_Witness ==
  \E s \in sends :
    /\ ~s.ok
    /\ pc[s.src[1]] = "done"
    /\ SentFor(s.src) = {s}
    /\ \E r \in reports : ReportsFor(s.src) = {r} /\ r.responseStatus = "failed"

\* C13: the send calls made for an automation that carries a response sequence
\* are the sends of its steps in list order, and a processing reported as sent
\* has sent every step.
C13_StepsInOrder ==
  \A s \in sends :
    LET q == automations[s.automationId].responseSequence
    IN (s.api = "sendDirectMessage" /\ q # <<>>) =>
         /\ s.seqno <= Len(q)
         /\ s.text = q[s.seqno].content
         /\ (\E r \in ReportsFor(s.src) : r.responseStatus = "sent") =>
              \A i \in 1..Len(q) : \E t \in SentFor(s.src) : t.seqno = i /\ t.ok

C15_SiblingsIsolated ==
  [][ \A d \in Deliveries :
        LET items == Items(req[d].body)
        IN pc[d] \in ItemSteps =>
             /\ idx'[d] # idx[d] =>
                  /\ idx'[d] > idx[d]
                  /\ \A j \in (idx[d] + 1)..(idx'[d] - 1) :
                       ~(Dispatched(items[j]) /\ validEvent(items[j]))
                  /\ idx'[d] <= Len(items) => pc'[d] = "insert"
             /\ pc'[d] = "done" => idx'[d] = Len(items) + 1 ]_vars

\* C15 witness: the send call of one sub-event failed and a later sub-event of
\* the same delivery was matched.
C15_Witness ==
  \E s \in sends :
    /\ ~s.ok
    /\ \E m \in matchLog : m.src[1] = s.src[1] /\ m.src[2] > s.src[2]

\* no channel carries the routing key as instance name, account id or webhook id
NoChannel(route) ==
  ~\E i \in DOMAIN instances :
     \/ instances[i].instanceName = route
     \/ instances[i].instagramAccountId = route
     \/ route \in instances[i].webhookIds

\* C16: a delivery whose routing key resolves to no channel is dropped: no
\* step of it inserts an event row, matches an automation, sends or reports.
C16_UnresolvedDropped ==
  [][ \A d \in Deliveries :
        (NoChannel(req'[d].route) /\ pc'[d] # pc[d]) =>
          /\ UNCHANGED <<messages, comments, matchLog, sends, reports>>
          /\ idx'[d] = 0 /\ inst'[d] = NoInstance ]_vars

\* C16 witness: a delivery with sub-events to dispatch and an unknown routing
\* key has ended after both lookups, with no sub-event started.
C16_Witness ==
  \E d \in Deliveries :
    /\ pc[d] = "done" /\ req[d].route = "zz" /\ idx[d] = 0
    /\ \E j \in 1..Len(Items(req[d].body)) :
         Dispatched(Items(req[d].body)[j]) /\ validEvent(Items(req[d].body)[j])
    /\ ~\E m \in matchLog : m.src[1] = d

\* where the payload holds the sub-event with a given id: <<entry, array, position>>
LocOf(body, id) ==
  CHOOSE t \in UNION {
      {<<e, k, p>> : p \in 1..Len(body.entry[e][k])} :
        e \in 1..Len(body.entry), k \in {"messaging", "changes"}} :
    body.entry[t[1]][t[2]][t[3]].id = id

\* payload order: entries in array order, inside an entry the messaging array
\* before the changes array, inside an array by position
Before(t0, t) ==
  \/ t0[1] < t[1]
  \/ /\ t0[1] = t[1]
     /\ \/ t0[2] = "messaging" /\ t[2] = "changes"
        \/ t0[2] = t[2] /\ t0[3] < t[3]

\* C20: within a delivery a sub-event is matched only after every sub-event
\* matched before it, all of which precede it in the payload, and no report of
\* an earlier sub-event is written once a later one has been matched.
C20_PayloadOrder ==
  [][ /\ \A m \in matchLog' \ matchLog :
           \A m0 \in matchLog :
             m0.src[1] = m.src[1] =>
               Before(LocOf(req[m.src[1]].body, m0.key), LocOf(req[m.src[1]].body, m.key))
      /\ \A r \in reports' \ reports :
           \A m0 \in matchLog :
             (m0.src[1] = r.src[1] /\ m0.key # r.key) =>
               Before(LocOf(req[r.src[1]].body, m0.key), LocOf(req[r.src[1]].body, r.key)) ]_vars

\* C20 witness: in one delivery a report was written for a comment of the first
\* entry and for a message of the second entry, after two messages of the first.
C20_Witness ==
  /\ \E r \in reports : r.key = "c1"
  /\ \E r \in reports : r.key = "m3"
  /\ \E m \in matchLog : m.key = "m2"
  /\ \E m \in matchLog : m.key = "c2"

\* the routing identifiers of a channel: its account id and its webhook ids
RoutingIds(doc) == ({doc.instagramAccountId} \cup doc.webhookIds) \ {None}

\* C17: at every instant no two channels share a routing identifier (primary
\* account id or alternate webhook id), so a routing key resolves to at most
\* one channel.
C17_RoutingIdsUnique ==
  \A i, j \in DOMAIN instances :
    i # j => RoutingIds(instances[i]) \cap RoutingIds(instances[j]) = {}

\* ------------------------------------------------------------------ stored automations
\* C18: after any sequence of create and update requests, no stored automation
\* with response type 'comment' carries a response sequence.
C18_CommentHasNoSequence ==
  \A i \in 1..Len(automations) :
    automations[i].responseType = "comment" => automations[i].responseSequence = <<>>

\* C19: after any sequence of create and update requests, a stored automation
\* has keywords exactly when its trigger type is 'keyword', and every stored
\* keyword of a keyword automation is non-blank.
C19_KeywordsIffKeywordTrigger ==
  \A i \in 1..Len(automations) :
    /\ (Len(automations[i].keywords) > 0) <=> (automations[i].triggerType = "keyword")
    /\ automations[i].triggerType = "keyword" =>
         \A k \in 1..Len(automations[i].keywords) :
           Len(trim(automations[i].keywords[k])) > 0

\* ------------------------------------------------------------------ channel resolution
\* the channels holding the key as instagramAccountId
PrimaryMatches(key) ==
  {instances[i] : i \in {j \in DOMAIN instances : instances[j].instagramAccountId = key}}

\* C21: when the lookup by Instagram account id answers a channel while some
\* channel has the key as its instagramAccountId, the answer is a channel with
\* that primary match, not one that only lists the key among its webhookIds.
C21_PrimaryFirst ==
  [][\A d \in Deliveries :
       ( /\ pc[d] = "getByInstagramAccountId"
         /\ inst'[d] # NoInstance
         /\ PrimaryMatches(req[d].route) # {} )
       => inst'[d] \in PrimaryMatches(req[d].route)]_vars

\* ------------------------------------------------------------------ management races
\* positions of a processing between the automation lookup and its end
InFlight == {"getInstanceWithToken", "send", "reportSent", "markReplied", "reportFailed"}

\* C22: a management write leaves every processing in flight where it is, with
\* the automation it read; from the lookup to its end a processing keeps that
\* automation, sends its response as read, and a report write that succeeds adds
\* the row whatever the stored automation has become; the lookup answers only an
\* automation that is stored active at that moment.
C22_InFlightKeepsReadState ==
  [][\A d \in Deliveries :
       /\ automations' # automations => UNCHANGED <<pc, idx, auto, tok, sends, reports>>
       /\ (pc[d] \in InFlight /\ pc'[d] \in InFlight /\ idx'[d] = idx[d])
            => auto'[d] = auto[d]
       /\ \A s \in sends' \ sends :
            s.src[1] = d => s.text = auto[d].responseText /\ s.automationId = auto[d].id
       /\ (pc[d] = "reportSent" /\ pc'[d] = "markReplied")
            => ReportRow(d, "sent") \in reports'
       /\ (pc[d] = "findMatchingAutomation" /\ auto'[d] # NoAutomation)
            => /\ getById(auto'[d].id) = auto'[d]
               /\ auto'[d].isActive]_vars

\* C22 witness: the delivery is done with a 'sent' report for both events; the
\* message was answered by an automation that is now inactive, the comment with
\* the text the automation had when matched, which the store no longer holds.
C22_Witness ==
  /\ pc[1] = "done"
  /\ \E s \in sends, r \in reports :
       /\ s.src = r.src /\ s.ok /\ r.responseStatus = "sent"
       /\ r.interactionType = "dm"
       /\ getById(s.automationId) # NoAutomation
       /\ ~automations[s.automationId].isActive
  /\ \E s \in sends, r \in reports :
       /\ s.src = r.src /\ s.ok /\ r.responseStatus = "sent"
       /\ r.interactionType = "comment"
       /\ s.text = <<"r">>
       /\ automations[s.automationId].responseText = <<"x">>

\* ------------------------------------------------------------------ notifier
\* C23: once reconnectAttempts has reached MAX_RECONNECT_ATTEMPTS, an event
\* passed to emitInstagramUpdate is dropped: the queue of pending events does
\* not grow any more.
C23_DroppedAfterBudget ==
  [][reconnectAttempts >= MAX_RECONNECT_ATTEMPTS
       => Len(pendingEvents') <= Len(pendingEvents)]_vars

\* the numbers of the events emitted so far
EmittedIds(seq) == {seq[i].data.data : i \in 1..Len(seq)}

\* C24: when 'connect' fires, the queued events are emitted once each in the
\* order they were queued, after what was emitted before, and the queue is empty
\* afterwards; an event passed while connected is emitted at once and not
\* queued, one passed while not connected is queued and not emitted; no event
\* is emitted twice.
C24_QueuedEmittedOnce ==
  [][/\ (~isConnected /\ isConnected') =>
          /\ Len(emitted') = Len(emitted) + Len(pendingEvents)
          /\ SubSeq(emitted', 1, Len(emitted)) = emitted
          /\ \A i \in 1..Len(pendingEvents) :
               /\ emitted'[Len(emitted) + i].data = pendingEvents[i].data
               /\ emitted'[Len(emitted) + i].queued
          /\ pendingEvents' = <<>>
     /\ (Len(emitted') + Len(pendingEvents') > Len(emitted) + Len(pendingEvents)) =>
          IF isConnected
          THEN /\ pendingEvents' = pendingEvents
               /\ Len(emitted') = Len(emitted) + 1
               /\ SubSeq(emitted', 1, Len(emitted)) = emitted
               /\ ~emitted'[Len(emitted')].queued
          ELSE /\ emitted' = emitted
               /\ Len(pendingEvents') = Len(pendingEvents) + 1
               /\ SubSeq(pendingEvents', 1, Len(pendingEvents)) = pendingEvents
     /\ Cardinality(EmittedIds(emitted')) = Len(emitted')
     /\ EmittedIds(emitted') \cap EmittedIds(pendingEvents') = {}]_vars

\* C24 witness: two events were queued while the socket was not connected and
\* emitted in that order by the 'connect' handler, a third was emitted at once
\* while connected, and the queue is empty.
C24_Witness ==
  /\ Len(emitted) = 3
  /\ emitted[1].queued /\ emitted[1].data.data = 1
  /\ emitted[2].queued /\ emitted[2].data.data = 2
  /\ ~emitted[3].queued /\ emitted[3].data.data = 3
  /\ pendingEvents = <<>>
  /\ isConnected

\* ------------------------------------------------------------------ sent reports
\* C25: every report row with status 'sent' belongs to an event for which a
\* platform call (sendDirectMessage or replyToComment) was made with the
\* matched automation's response text and succeeded.
C25_SentMeansSendSucceeded ==
  \A r \in reports :
    r.responseStatus = "sent" =>
      \E s \in sends :
        /\ s.src = r.src
        /\ s.ok
        /\ s.api \in {"sendDirectMessage", "replyToComment"}

\* ------------------------------------------------------------------ replied flag
\* C26: after every step, a stored message or comment with replied = TRUE has
\* a report row with status 'sent' for that event; and the step that sets the
\* flag belongs to a processing whose send did not fail.
C26_RepliedOnlyWithSentReport ==
  [][/\ \A m \in messages' :
          m.replied => \E r \in reports' :
            /\ r.responseStatus = "sent" /\ r.interactionType = "dm"
            /\ r.key = m.message_id /\ r.instanceId = m.instance_id
     /\ \A c \in comments' :
          c.replied => \E r \in reports' :
            /\ r.responseStatus = "sent" /\ r.interactionType = "comment"
            /\ r.key = c.comment_id
     /\ \A d \in Deliveries :
          ( /\ pc[d] = "markReplied" /\ pc'[d] # pc[d]
            /\ (messages' # messages \/ comments' # comments) )
          => ~\E s \in sends : s.src = Src(d) /\ ~s.ok]_vars

\* C26 witness: a message was answered, reported 'sent' and flagged replied,
\* while another stored event, whose send failed and was reported 'failed', is
\* not flagged.
C26_Witness ==
  /\ \E m \in messages, r \in reports :
       /\ m.replied /\ r.responseStatus = "sent" /\ r.interactionType = "dm"
       /\ r.key = m.message_id /\ r.instanceId = m.instance_id
  /\ \E c \in comments, s \in sends, r \in reports :
       /\ ~c.replied /\ ~s.ok /\ s.src = r.src
       /\ r.responseStatus = "failed" /\ r.interactionType = "comment"
       /\ r.key = c.comment_id
       /\ ~\E t \in sends : t.ok /\ t.api = "replyToComment"

\* ------------------------------------------------------------------ channels without a token
\* the channel has no stored access token
NoStoredToken(id) ==
  id \notin DOMAIN instances \/ instances[id].accessToken = None

\* C27: when the processing of a matched direct message looks up the token and
\* its channel has no stored access token, it ends there: no send call, no
\* report row, and the message row is still stored with replied = FALSE.
C27_NoTokenNoSend ==
  [][\A d \in Deliveries :
       ( /\ pc[d] = "getInstanceWithToken" /\ pc'[d] # pc[d]
         /\ NoStoredToken(inst[d].id) )
       => /\ pc'[d] \notin {"send", "reportSent"}
          /\ sends' = sends /\ reports' = reports
          /\ \E m \in messages' :
               /\ m.message_id = Item(d).id /\ m.instance_id = inst[d].id
               /\ ~m.replied]_vars

\* ------------------------------------------------------------------ credentials
\* C28: a channel that is disconnected with its credential cleared keeps the
\* credential cleared in every step, except a step that connects it (OAuth).
C28_ClearedStaysCleared ==
  [][\A i \in DOMAIN instances \cap DOMAIN instances' :
       (instances[i].status = "disconnected" /\ instances[i].accessToken = None)
       => \/ instances'[i].accessToken = None
          \/ instances'[i].status = "connected"]_vars

\* C29: a refreshInstanceToken call that finds no channel, no token or no
\* expiry ends with false; one that finds more than RefreshWindowDays days left
\* ends without calling the platform; a failed platform call ends with false;
\* and none of these steps changes a document. The write changes only the
\* token and the expiry of the channel named.
C29_RefreshFrame ==
  [][\A r \in Refreshes :
       /\ (refresh[r].pc = "findById" /\ refresh'[r].pc # "findById") =>
            LET id == refresh[r].instanceId
            IN /\ instances' = instances
               /\ ( \/ id \notin DOMAIN instances
                    \/ instances[id].accessToken = None
                    \/ instances[id].tokenExpiresAt = NoDate )
                  => refresh'[r] = [pc |-> "done", result |-> FALSE]
               /\ ( /\ id \in DOMAIN instances
                    /\ instances[id].accessToken # None
                    /\ instances[id].tokenExpiresAt # NoDate
                    /\ instances[id].tokenExpiresAt - now
                         > RefreshWindowDays * TicksPerDay )
                  => refresh'[r].pc = "done"
       /\ (refresh[r].pc = "refreshLongLivedToken"
             /\ refresh'[r].pc # "refreshLongLivedToken") =>
            /\ instances' = instances
            /\ refresh'[r].pc = "done" => ~refresh'[r].result
       /\ (refresh[r].pc = "updateAccessToken" /\ refresh'[r].pc = "done") =>
            /\ ~refresh'[r].result => instances' = instances
            /\ DOMAIN instances' = DOMAIN instances
            /\ \A i \in DOMAIN instances :
                 \A f \in DOMAIN instances[i] :
                   instances'[i][f] # instances[i][f]
                   => i = refresh[r].instanceId /\ f \in {"accessToken", "tokenExpiresAt"}]_vars

\* C30: processing of every delivery terminates. Provided every awaited call
\* returns or fails, a delivery that was received eventually completes
\* (processWebhook settles, or the handler's catch answered), and a sub-event
\* whose processing is at an awaited call is eventually left behind: the loops
\* have moved past it or the delivery is over.
Settled(d) == pc[d] \in {"done", "aborted"}

C30_ProcessingTerminates ==
  /\ \A d \in Deliveries : (pc[d] # "idle") ~> Settled(d)
  /\ \A d \in Deliveries : \A i \in 1..MaxItems :
       (idx[d] = i /\ ~Settled(d)) ~> (idx[d] > i \/ Settled(d))

\* a delivery completed after its loops passed every sub-event, one of them
\* processed with a report and another one ignored
C30_Witness ==
  \E d \in Deliveries :
    LET items == Items(req[d].body)
    IN /\ pc[d] = "done"
       /\ Len(items) >= 2
       /\ idx[d] = Len(items) + 1
       /\ \E i \in 1..Len(items) : \E r \in reports : r.src = <<d, i>>
       /\ \E i \in 1..Len(items) : \A r \in reports : r.src # <<d, i>>

====
